---- MODULE Spec2Model ----
(***************************************************************************)
(* Model of the interactive message engine of bathbot:                     *)
(*   SimulateComponents (bathbot/src/active/impls/simulate/mod.rs), one    *)
(*   instance driven by its dispatcher (Spec), and two instances behind    *)
(*   the dispatch registry, from first render to expiry (SpecReg);         *)
(*   the pager of a paginated list such as TopIfPagination                 *)
(*   (bathbot/src/active/impls/top_if.rs) (SpecPager);                     *)
(*   CachedAttributes in one run of process_scores                         *)
(*   (bathbot/src/commands/osu/recent/list.rs) (SpecCache);                *)
(*   a TopIfPagination under the events of its users (SpecTopIf);          *)
(*   the matchlive commands of a channel and its threads                   *)
(*   (bathbot/src/commands/osu/match_live.rs) (SpecMatch);                 *)
(*   the recent list commands, from the arguments typed to the entries     *)
(*   of the list (SpecRecent; SpecRequest up to the request for the        *)
(*   scores, SpecSlash for the slash command alone), RecentList::args      *)
(*   over longer argument lists (SpecArgs), and process_scores with the    *)
(*   unique option (SpecUnique).                                           *)
(* Texts are sequences of one-character strings; numbers with a fraction   *)
(* are kept in tenths (9.5 is 95).                                         *)
(***************************************************************************)
EXTENDS Integers, Sequences, FiniteSets, TLC

VARIABLES data, map, defer, msg_owner, focus, last, renderPending, evAcks, streak,
          reg, queue, inflight, delivered, stage,
          pages, paged, trail,
          cache, maps, probe, calcs, guards, answers, scored,
          tracked, threads, mcall,
          rl,
          topif_entries, tcall

simVars == <<data, map, defer, msg_owner, focus, last, renderPending, evAcks, streak>>

regVars == <<reg, queue, inflight, delivered, stage>>

\* The pager of a paginated list: its Pages value, the pagination call last
\* made on it, and how many next_page calls were made if nothing else was.
pagerVars == <<pages, paged, trail>>

\* One run of process_scores: its CachedAttributes, the maps it fetched, the
\* get call last made, how often each key was calculated and each map's
\* suspicion guard evaluated, what get answered for each key, and the number
\* of scores gone through.
cacheVars == <<cache, maps, probe, calcs, guards, answers, scored>>

\* Match live tracking: the matches each channel tracks, the threads created
\* for tracking, and the matchlive command last run.
matchVars == <<tracked, threads, mcall>>

\* The recent list command being run: how far it is, what was typed, the
\* scores fetched and the entries made of them.
recentVars == <<rl>>

\* A TopIfPagination: its entries, by their original index, and the call last
\* made on it; its Pages value is pages.
topifVars == <<topif_entries, tcall>>

listVars == <<pagerVars, cacheVars, matchVars, recentVars, topifVars>>

vars == <<simVars, regVars, listVars>>

\* Callbacks the platform delivers in one behaviour of the registry.
MaxDeliveries == 3

\* Option<T>: None is the empty set, Some(v) the singleton.
None == {}

Some(v) == {v}

Unwrap(o) == CHOOSE x \in o : TRUE

\* An event whose user_id() fails carries NoUser.
NoUser == "NoUser"

Users == {"u1", "u2"}

\* ------------------------------------------------------------------ texts

DigitVal == [c \in {"0", "1", "2", "3", "4", "5", "6", "7", "8", "9"} |->
               CASE c = "0" -> 0 [] c = "1" -> 1 [] c = "2" -> 2 [] c = "3" -> 3
                 [] c = "4" -> 4 [] c = "5" -> 5 [] c = "6" -> 6 [] c = "7" -> 7
                 [] c = "8" -> 8 [] c = "9" -> 9]

IsDigits(s) == Len(s) > 0 /\ \A i \in 1..Len(s) : s[i] \in DOMAIN DigitVal

RECURSIVE DigitsValue(_)
DigitsValue(s) ==
    IF s = <<>> THEN 0
    ELSE DigitsValue(SubSeq(s, 1, Len(s) - 1)) * 10 + DigitVal[s[Len(s)]]

Tail1(s) == SubSeq(s, 2, Len(s))

ParseErr == [ok |-> FALSE, value |-> 0]

ParseOk(v) == [ok |-> TRUE, value |-> v]

\* str::parse for the unsigned integer fields: an optional '+', then digits.
ParseUInt(s) ==
    LET body == IF s # <<>> /\ s[1] = "+" THEN Tail1(s) ELSE s
    IN  IF IsDigits(body) THEN ParseOk(DigitsValue(body)) ELSE ParseErr

DotAt(s) == IF \E i \in 1..Len(s) : s[i] = "."
            THEN CHOOSE i \in 1..Len(s) : s[i] = "." /\ \A j \in 1..(i - 1) : s[j] # "."
            ELSE 0

\* str::parse for the float fields, in tenths: an optional sign, digits with
\* an optional '.', at least one digit; texts carry at most one fraction digit.
ParseFloat(s) ==
    LET signed == s # <<>> /\ s[1] \in {"+", "-"}
        body == IF signed THEN Tail1(s) ELSE s
        dot == DotAt(body)
        int == IF dot = 0 THEN body ELSE SubSeq(body, 1, dot - 1)
        frac == IF dot = 0 THEN <<>> ELSE SubSeq(body, dot + 1, Len(body))
        wellFormed == /\ (int = <<>> \/ IsDigits(int))
                      /\ (frac = <<>> \/ IsDigits(frac))
                      /\ Len(int) + Len(frac) > 0
        magnitude == DigitsValue(int) * 10
                     + (IF frac = <<>> THEN 0 ELSE DigitVal[frac[1]])
    IN  IF ~wellFormed THEN ParseErr
        ELSE IF signed /\ s[1] = "-" THEN ParseOk(0 - magnitude)
        ELSE ParseOk(magnitude)

\* f32::clamp(0.0, 100.0), in tenths.
ClampAcc(v) == IF v < 0 THEN 0 ELSE IF v > 1000 THEN 1000 ELSE v

RECURSIVE TrimStart(_, _)
TrimStart(s, c) == IF s # <<>> /\ s[1] = c THEN TrimStart(Tail1(s), c) ELSE s

RECURSIVE TrimEnd(_, _)
TrimEnd(s, c) ==
    IF s # <<>> /\ s[Len(s)] = c THEN TrimEnd(SubSeq(s, 1, Len(s) - 1), c) ELSE s

\* Mod acronyms known to the parser, and the one that exists in mania only.
Acronyms == {<<"H", "D">>, <<"H", "R">>, <<"E", "Z">>, <<"F", "I">>}

ManiaOnly == {<<"F", "I">>}

RECURSIVE Pairs(_)
Pairs(s) == IF Len(s) < 2 THEN {} ELSE {SubSeq(s, 1, 2)} \cup Pairs(SubSeq(s, 3, Len(s)))

\* GameModsIntermode::from_str: the text is a sequence of known acronyms.
ParseMods(s) ==
    IF Len(s) > 0 /\ Len(s) % 2 = 0 /\ Pairs(s) \subseteq Acronyms
    THEN ParseOk(Pairs(s)) ELSE ParseErr

\* GameModsIntermode::try_with_mode: None when a mod does not exist in the mode.
TryWithMode(mods, mode) ==
    IF mode # "Mania" /\ mods \cap ManiaOnly # {} THEN None ELSE Some(mods)

\* GameMods::is_valid: no two mods exclude each other.
IsValid(mods) == ~({<<"H", "R">>, <<"E", "Z">>} \subseteq mods)

\* ------------------------------------------------------------------ state

\* SimulateData as the command hands it to SimulateComponents::new: nothing
\* specified, or every value specified.
EmptyData(version) ==
    [mods |-> None, acc |-> None, combo |-> None, n_geki |-> None, n_katu |-> None,
     n300 |-> None, n100 |-> None, n50 |-> None, n_miss |-> None, score |-> None,
     n_slider_ends |-> None, n_large_ticks |-> None,
     attrs |-> [ar |-> None, cs |-> None, hp |-> None, od |-> None],
     clock_rate |-> None, bpm |-> None, version |-> version, set_on_lazer |-> FALSE]

FullData(version) ==
    [mods |-> Some({<<"H", "D">>}), acc |-> Some(985), combo |-> Some(3),
     n_geki |-> Some(3), n_katu |-> Some(3), n300 |-> Some(3), n100 |-> Some(3),
     n50 |-> Some(3), n_miss |-> Some(3), score |-> Some(3),
     n_slider_ends |-> Some(3), n_large_ticks |-> Some(3),
     attrs |-> [ar |-> Some(70), cs |-> Some(70), hp |-> Some(70), od |-> Some(70)],
     clock_rate |-> Some(15), bpm |-> Some(1800), version |-> version,
     set_on_lazer |-> TRUE]

\* The beatmap's own mode and difficulty settings (pp_map), in tenths.
InitMap(mode) == [mode |-> mode, ar |-> 90, cs |-> 40, hp |-> 50, od |-> 80]

\* Entries of the version select menu, per TopOldVersion variant.
MenuVersions == {"Osu_2014", "Osu_2021", "Mania_2018"}

DefaultVersion(mode) == IF mode = "Mania" THEN "Mania_2018" ELSE "Osu_2021"

\* TopOldVersion::from_menu_str
FromMenuStr(s) == IF s \in MenuVersions THEN Some(s) ELSE None

\* ------------------------------------------------------------------ inputs

IntTexts == {<<>>, <<"1", "5", "0">>, <<"+", "7">>, <<"a">>, <<"9", ".", "5">>}

AccTexts == {<<>>, <<"1", "5", "0">>, <<"9", ".", "5">>, <<"-", "3">>, <<"a">>}

AttrTexts == {<<>>, <<"9", ".", "5">>, <<"a">>}

ModsTexts == {<<>>, <<"+", "H", "D", "!">>, <<"H", "R", "E", "Z">>, <<"F", "I">>,
              <<"x", "y">>}

IntModalIds == {"sim_combo", "sim_geki", "sim_katu", "sim_n300", "sim_n100", "sim_n50",
                "sim_miss", "sim_score", "sim_slider_ends", "sim_large_ticks"}

ModalButtons == IntModalIds \cup {"sim_mods", "sim_acc", "sim_clock_rate", "sim_attrs"}

VersionMenus == {"sim_osu_version", "sim_taiko_version", "sim_catch_version",
                 "sim_mania_version"}

NoModal == [custom_id |-> "", inputs |-> <<>>]

\* Faulty variant: the modal of sim_clock_rate carries the button's own id.
ModalFor_ButtonId(id) ==
    CASE id = "sim_clock_rate" ->
           [custom_id |-> "sim_clock_rate", inputs |-> <<"sim_clock_rate", "sim_bpm">>]
      [] id = "sim_attrs" ->
           [custom_id |-> "sim_attrs", inputs |-> <<"sim_ar", "sim_cs", "sim_hp", "sim_od">>]
      [] OTHER -> [custom_id |-> id, inputs |-> <<id>>]

\* The modal handle_component builds for an input-requesting button.
ModalFor(id) ==
    CASE id = "sim_clock_rate" ->
           [custom_id |-> "sim_speed_adjustments", inputs |-> <<"sim_clock_rate", "sim_bpm">>]
      [] id = "sim_attrs" ->
           [custom_id |-> "sim_attrs", inputs |-> <<"sim_ar", "sim_cs", "sim_hp", "sim_od">>]
      [] OTHER -> [custom_id |-> id, inputs |-> <<id>>]

\* A session is one panel on which the users work one control (focus) besides
\* the lazer/stable switches and the version menu; "clicks" is the session in
\* which every component is clicked and no modal is submitted.
Sessions ==
    {[focus |-> f, mode |-> "Osu", full |-> p] :
        f \in ModalButtons \cup {"sim_bogus", "clicks"}, p \in BOOLEAN}
    \cup {[focus |-> f, mode |-> "Mania", full |-> FALSE] : f \in {"sim_mods", "clicks"}}

TextsFor(input) ==
    CASE input = "sim_mods" -> ModsTexts
      [] input = "sim_acc" -> AccTexts
      [] input \in IntModalIds -> IntTexts
      [] input \in {"sim_ar", "sim_cs", "sim_hp", "sim_od", "sim_clock_rate", "sim_bpm"} ->
           AttrTexts
      [] OTHER -> {<<"7">>}

Row(id, value) == [custom_id |-> id, value |-> value]

Submission(user, id, rows) == [user |-> user, custom_id |-> id, rows |-> rows]

\* The rows of a submitted modal: one text input per row; one input takes every
\* text of its kind while the others share a common text.
RowsFor(inputs) ==
    UNION {{[j \in 1..Len(inputs) |-> Row(inputs[j], Some(IF j = i THEN t ELSE common))] :
               t \in TextsFor(inputs[i]),
               common \in (IF Len(inputs) = 1 THEN {<<>>} ELSE AttrTexts)} :
           i \in 1..Len(inputs)}

\* The submissions of the session's modal the platform can deliver: the modal
\* as handle_component built it, and the same with its only value absent.
Submissions(f, user) ==
    IF f = "clicks" THEN {}
    ELSE LET modal == ModalFor(f)
         IN  {Submission(user, modal.custom_id, rows) : rows \in RowsFor(modal.inputs)}
             \cup (IF Len(modal.inputs) = 1
                   THEN {Submission(user, modal.custom_id, <<Row(modal.inputs[1], None)>>)}
                   ELSE {})

Click(user, id, values, deferOk) ==
    [user |-> user, custom_id |-> id, values |-> values, deferOk |-> deferOk]

ClickIds(f) ==
    IF f = "clicks" THEN ModalButtons \cup VersionMenus \cup {"sim_lazer", "sim_stable", "sim_bogus"}
    ELSE {f, "sim_lazer", "sim_stable", "sim_osu_version"}

\* The component events: buttons carry no values, a select menu carries the
\* chosen entries; deferOk is whether the platform accepts component.defer().
Clicks(f, user) ==
    {Click(user, id, <<>>, TRUE) : id \in ClickIds(f) \ VersionMenus}
    \cup {Click(user, id, vals, ok) :
            id \in ClickIds(f) \cap VersionMenus,
            vals \in {<<>>, <<"Osu_2014">>, <<"bogus">>},
            ok \in BOOLEAN}

\* Events whose user_id() fails: one click and one submission per session.
AnonymousClicks(f) == {Click(NoUser, "sim_lazer", <<>>, TRUE)}

AnonymousSubmissions(f) ==
    IF f = "clicks" THEN {}
    ELSE {Submission(NoUser, ModalFor(f).custom_id,
                     [j \in 1..Len(ModalFor(f).inputs) |->
                        Row(ModalFor(f).inputs[j], Some(<<"7">>))])}

\* ------------------------------------------------------------------ handlers

\* What a component handler leaves behind: the stored data, the defer flag,
\* the ComponentResult, the modal of a CreateModal, and the number of
\* component.defer() calls the platform accepted.
Outcome(d, df, result, modal, defers) ==
    [data |-> d, defer |-> df, result |-> result, modal |-> modal, defers |-> defers]

\* Faulty variant: the version menu handler resets the defer flag after deferring.
handle_topold_menu_ResetDefer(d, df, c) ==
    IF c.values = <<>> THEN Outcome(d, df, "Err", NoModal, 0)
    ELSE IF FromMenuStr(c.values[1]) = None THEN Outcome(d, df, "Err", NoModal, 0)
    ELSE IF ~c.deferOk THEN Outcome(d, df, "Err", NoModal, 0)
    ELSE Outcome([d EXCEPT !.version = Unwrap(FromMenuStr(c.values[1]))], FALSE,
                 "BuildPage", NoModal, 1)

\* Faulty variant: the version is stored before the callback is deferred.
handle_topold_menu_VersionFirst(d, df, c) ==
    IF c.values = <<>> THEN Outcome(d, df, "Err", NoModal, 0)
    ELSE IF FromMenuStr(c.values[1]) = None THEN Outcome(d, df, "Err", NoModal, 0)
    ELSE IF ~c.deferOk
    THEN Outcome([d EXCEPT !.version = Unwrap(FromMenuStr(c.values[1]))], df, "Err", NoModal, 0)
    ELSE Outcome([d EXCEPT !.version = Unwrap(FromMenuStr(c.values[1]))], df,
                 "BuildPage", NoModal, 1)

handle_topold_menu(d, df, c) ==
    IF c.values = <<>> THEN Outcome(d, df, "Err", NoModal, 0)
    ELSE IF FromMenuStr(c.values[1]) = None THEN Outcome(d, df, "Err", NoModal, 0)
    ELSE IF ~c.deferOk THEN Outcome(d, df, "Err", NoModal, 0)
    ELSE Outcome([d EXCEPT !.version = Unwrap(FromMenuStr(c.values[1]))], df,
                 "BuildPage", NoModal, 1)

\* Faulty variant: sim_lazer and sim_stable leave the defer flag alone.
component_match_KeepDefer(d, df, c) ==
    CASE c.custom_id \in ModalButtons ->
           Outcome(d, df, "CreateModal", ModalFor(c.custom_id), 0)
      [] c.custom_id = "sim_lazer" ->
           Outcome([d EXCEPT !.set_on_lazer = TRUE], df, "BuildPage", NoModal, 0)
      [] c.custom_id = "sim_stable" ->
           Outcome([d EXCEPT !.set_on_lazer = FALSE, !.n_slider_ends = None,
                             !.n_large_ticks = None],
                   df, "BuildPage", NoModal, 0)
      [] c.custom_id \in VersionMenus -> handle_topold_menu(d, df, c)
      [] OTHER -> Outcome(d, df, "Ignore", NoModal, 0)

\* Faulty variant: an unknown component id is an error.
component_match_UnknownErr(d, df, c) ==
    CASE c.custom_id \in ModalButtons ->
           Outcome(d, df, "CreateModal", ModalFor(c.custom_id), 0)
      [] c.custom_id = "sim_lazer" ->
           Outcome([d EXCEPT !.set_on_lazer = TRUE], FALSE, "BuildPage", NoModal, 0)
      [] c.custom_id = "sim_stable" ->
           Outcome([d EXCEPT !.set_on_lazer = FALSE, !.n_slider_ends = None,
                             !.n_large_ticks = None],
                   FALSE, "BuildPage", NoModal, 0)
      [] c.custom_id \in VersionMenus -> handle_topold_menu(d, df, c)
      [] OTHER -> Outcome(d, df, "Err", NoModal, 0)

\* Faulty variant: opening a modal resets the defer flag as the switches do.
component_match_ModalResetsDefer(d, df, c) ==
    CASE c.custom_id \in ModalButtons ->
           Outcome(d, FALSE, "CreateModal", ModalFor(c.custom_id), 0)
      [] c.custom_id = "sim_lazer" ->
           Outcome([d EXCEPT !.set_on_lazer = TRUE], FALSE, "BuildPage", NoModal, 0)
      [] c.custom_id = "sim_stable" ->
           Outcome([d EXCEPT !.set_on_lazer = FALSE, !.n_slider_ends = None,
                             !.n_large_ticks = None],
                   FALSE, "BuildPage", NoModal, 0)
      [] c.custom_id \in VersionMenus -> handle_topold_menu(d, df, c)
      [] OTHER -> Outcome(d, df, "Ignore", NoModal, 0)

\* The match on the component's custom id.
component_match(d, df, c) ==
    CASE c.custom_id \in ModalButtons ->
           Outcome(d, df, "CreateModal", ModalFor(c.custom_id), 0)
      [] c.custom_id = "sim_lazer" ->
           Outcome([d EXCEPT !.set_on_lazer = TRUE], FALSE, "BuildPage", NoModal, 0)
      [] c.custom_id = "sim_stable" ->
           Outcome([d EXCEPT !.set_on_lazer = FALSE, !.n_slider_ends = None,
                             !.n_large_ticks = None],
                   FALSE, "BuildPage", NoModal, 0)
      [] c.custom_id \in VersionMenus -> handle_topold_menu(d, df, c)
      [] OTHER -> Outcome(d, df, "Ignore", NoModal, 0)

\* Faulty variant: the owner check is missing.
handle_component_AnyUser(d, df, owner, c) ==
    IF c.user = NoUser THEN Outcome(d, df, "Err", NoModal, 0)
    ELSE component_match(d, df, c)

handle_component(d, df, owner, c) ==
    IF c.user = NoUser THEN Outcome(d, df, "Err", NoModal, 0)
    ELSE IF c.user # owner THEN Outcome(d, df, "Ignore", NoModal, 0)
    ELSE component_match(d, df, c)

\* value.as_deref().filter(|val| !val.is_empty())
NonEmpty(value) == IF value # None /\ Unwrap(value) = <<>> THEN None ELSE value

\* The stored field each single-field integer modal writes.
IntField(id) ==
    CASE id = "sim_combo" -> "combo"
      [] id = "sim_geki" -> "n_geki"
      [] id = "sim_katu" -> "n_katu"
      [] id = "sim_n300" -> "n300"
      [] id = "sim_n100" -> "n100"
      [] id = "sim_n50" -> "n50"
      [] id = "sim_miss" -> "n_miss"
      [] id = "sim_score" -> "score"
      [] id = "sim_slider_ends" -> "n_slider_ends"
      [] id = "sim_large_ticks" -> "n_large_ticks"

parse_attr(m, component_id) ==
    IF \E i \in 1..Len(m.rows) : m.rows[i].custom_id = component_id
    THEN LET i == CHOOSE k \in 1..Len(m.rows) :
                    /\ m.rows[k].custom_id = component_id
                    /\ \A j \in 1..(k - 1) : m.rows[j].custom_id # component_id
             value == NonEmpty(m.rows[i].value)
         IN  IF value = None THEN None
             ELSE IF ParseFloat(Unwrap(value)).ok
                  THEN Some(ParseFloat(Unwrap(value)).value)
                  ELSE None
    ELSE None

\* What handle_modal leaves behind: the stored data, Ok or Err, and the
\* number of modal.defer() calls made.
ModalOutcome(d, result, defers) == [data |-> d, result |-> result, defers |-> defers]

\* Faulty variant: mods that do not fit the mode are reported as an error.
sim_mods_modal_IncompatibleErr(d, mode, input) ==
    IF input = None THEN ModalOutcome([d EXCEPT !.mods = None], "Ok", 1)
    ELSE LET res == ParseMods(TrimEnd(TrimStart(Unwrap(input), "+"), "!"))
         IN  IF ~res.ok THEN ModalOutcome(d, "Ok", 0)
             ELSE LET mods == TryWithMode(res.value, mode)
                  IN  IF mods = None THEN ModalOutcome(d, "Err", 0)
                      ELSE IF IsValid(Unwrap(mods))
                           THEN ModalOutcome([d EXCEPT !.mods = mods], "Ok", 1)
                           ELSE ModalOutcome(d, "Err", 0)

sim_mods_modal(d, mode, input) ==
    IF input = None THEN ModalOutcome([d EXCEPT !.mods = None], "Ok", 1)
    ELSE LET res == ParseMods(TrimEnd(TrimStart(Unwrap(input), "+"), "!"))
         IN  IF ~res.ok THEN ModalOutcome(d, "Ok", 0)
             ELSE LET mods == TryWithMode(res.value, mode)
                  IN  IF mods = None THEN ModalOutcome(d, "Ok", 0)
                      ELSE IF IsValid(Unwrap(mods))
                           THEN ModalOutcome([d EXCEPT !.mods = mods], "Ok", 1)
                           ELSE ModalOutcome(d, "Ok", 0)

sim_acc_modal(d, input) ==
    IF input = None THEN ModalOutcome([d EXCEPT !.acc = None], "Ok", 1)
    ELSE IF ParseFloat(Unwrap(input)).ok
         THEN ModalOutcome([d EXCEPT !.acc = Some(ClampAcc(ParseFloat(Unwrap(input)).value))],
                           "Ok", 1)
         ELSE ModalOutcome(d, "Ok", 0)

\* Faulty variant: an empty input leaves the stored value alone.
sim_int_modal_KeepOnEmpty(d, field, input) ==
    IF input = None THEN ModalOutcome(d, "Ok", 1)
    ELSE IF ParseUInt(Unwrap(input)).ok
         THEN ModalOutcome([d EXCEPT ![field] = Some(ParseUInt(Unwrap(input)).value)],
                           "Ok", 1)
         ELSE ModalOutcome(d, "Ok", 0)

sim_int_modal(d, field, input) ==
    IF input = None THEN ModalOutcome([d EXCEPT ![field] = None], "Ok", 1)
    ELSE IF ParseUInt(Unwrap(input)).ok
         THEN ModalOutcome([d EXCEPT ![field] = Some(ParseUInt(Unwrap(input)).value)],
                           "Ok", 1)
         ELSE ModalOutcome(d, "Ok", 0)

sim_attrs_modal(d, m) ==
    ModalOutcome([d EXCEPT !.attrs = [ar |-> parse_attr(m, "sim_ar"),
                                      cs |-> parse_attr(m, "sim_cs"),
                                      hp |-> parse_attr(m, "sim_hp"),
                                      od |-> parse_attr(m, "sim_od")]],
                 "Ok", 1)

sim_speed_modal(d, m) ==
    ModalOutcome([d EXCEPT !.clock_rate = parse_attr(m, "sim_clock_rate"),
                           !.bpm = parse_attr(m, "sim_bpm")],
                 "Ok", 1)

\* The first input of the first row and the match on the modal's custom id.
modal_match(d, mode, m) ==
    IF m.rows = <<>> THEN ModalOutcome(d, "Err", 0)
    ELSE LET input == NonEmpty(m.rows[1].value)
         IN  CASE m.custom_id = "sim_mods" -> sim_mods_modal(d, mode, input)
               [] m.custom_id = "sim_acc" -> sim_acc_modal(d, input)
               [] m.custom_id \in IntModalIds -> sim_int_modal(d, IntField(m.custom_id), input)
               [] m.custom_id = "sim_attrs" -> sim_attrs_modal(d, m)
               [] m.custom_id = "sim_speed_adjustments" -> sim_speed_modal(d, m)
               [] OTHER -> ModalOutcome(d, "Ok", 1)

\* Faulty variant: the owner check is missing.
handle_modal_AnyUser(d, mode, owner, m) ==
    IF m.user = NoUser THEN ModalOutcome(d, "Err", 0)
    ELSE modal_match(d, mode, m)

handle_modal(d, mode, owner, m) ==
    IF m.user = NoUser THEN ModalOutcome(d, "Err", 0)
    ELSE IF m.user # owner THEN ModalOutcome(d, "Ok", 0)
    ELSE modal_match(d, mode, m)

\* The overrides build_page writes into the beatmap before it renders.
ApplyOverrides(mp, attrs) ==
    [mp EXCEPT !.ar = IF attrs.ar # None THEN Unwrap(attrs.ar) ELSE @,
               !.cs = IF attrs.cs # None THEN Unwrap(attrs.cs) ELSE @,
               !.hp = IF attrs.hp # None THEN Unwrap(attrs.hp) ELSE @,
               !.od = IF attrs.od # None THEN Unwrap(attrs.od) ELSE @]

\* The embed is a function of the beatmap as overridden and of the stored data.
Embed(mp, d) == [map |-> mp, data |-> d]

\* Faulty variant: the page is rendered before the overrides are written.
build_page_RenderFirst(mp, d, df) ==
    [map |-> ApplyOverrides(mp, d.attrs),
     defer |-> TRUE,
     page |-> [embed |-> Embed(mp, d), content |-> "Simulated score:", defer |-> df]]

\* Faulty variant: the defer flag is read and not set again.
build_page_KeepsDefer(mp, d, df) ==
    [map |-> ApplyOverrides(mp, d.attrs),
     defer |-> df,
     page |-> [embed |-> Embed(ApplyOverrides(mp, d.attrs), d),
               content |-> "Simulated score:",
               defer |-> df]]

build_page(mp, d, df) ==
    [map |-> ApplyOverrides(mp, d.attrs),
     defer |-> TRUE,
     page |-> [embed |-> Embed(ApplyOverrides(mp, d.attrs), d),
               content |-> "Simulated score:",
               defer |-> df]]

\* ------------------------------------------------------------------ dispatcher

\* Acknowledgments the dispatcher makes for a handler's result: opening the
\* modal of a CreateModal answers the callback.
DispatchAcks(result) == IF result = "CreateModal" THEN 1 ELSE 0

\* A render whose BuildPage says defer is sent as an edit of the deferred
\* response; one that does not is itself the answer to the callback.
RenderAcks(pageDefer) == IF pageDefer THEN 0 ELSE 1

\* ------------------------------------------------------------------ registry

\* Two active messages, each a SimulateComponents instance of owner "u1".
Messages == {"m1", "m2"}

\* Faulty variant: a new instance takes its first render for already deferred.
Instance_SendImmediately(mode) ==
    [data |-> EmptyData(DefaultVersion(mode)), map |-> InitMap(mode), defer |-> FALSE,
     msg_owner |-> "u1"]

Instance(mode) ==
    [data |-> EmptyData(DefaultVersion(mode)), map |-> InitMap(mode), defer |-> TRUE,
     msg_owner |-> "u1"]

RegStart ==
    /\ reg = [m \in Messages |-> Instance("Osu")]
    /\ queue = [m \in Messages |-> <<>>]
    /\ inflight = [m \in Messages |-> {}]
    /\ delivered = 0
    /\ stage = [m \in Messages |-> "Initial"]

\* The callbacks delivered to the registry.
RegClicks ==
    {Click("u1", "sim_lazer", <<>>, TRUE), Click("u1", "sim_stable", <<>>, TRUE),
     Click("u1", "sim_osu_version", <<"Osu_2014">>, TRUE),
     Click("u2", "sim_lazer", <<>>, TRUE)}

RegSubmissions == {Submission("u1", "sim_combo", <<Row("sim_combo", Some(<<"1", "5", "0">>))>>)}

Callback(id, kind, ev) == [id |-> id, kind |-> kind, ev |-> ev]

Invocation(cb, pc) == [id |-> cb.id, kind |-> cb.kind, ev |-> cb.ev, pc |-> pc]

\* Faulty variant: the registry starts a handler without taking the entry's lock.
Exclusive_NoLock(m) == TRUE

\* The handlers take the instance by exclusive reference: the registry starts
\* one only when no other invocation holds the entry.
Exclusive(m) == inflight[m] = {}

\* Faulty variant: the registry routes callbacks to a dropped instance.
Routable_Always(m) == TRUE

\* The registry still holds the instance of the message.
Routable(m) == stage[m] # "Expired"

\* The command renders the first page of a new message with build_page.
Start ==
    /\ \E m \in Messages :
         /\ stage[m] = "Initial"
         /\ LET out == build_page(reg[m].map, reg[m].data, reg[m].defer)
            IN  reg' = [reg EXCEPT ![m].map = out.map, ![m].defer = out.defer]
         /\ stage' = [stage EXCEPT ![m] = "Rendered"]
    /\ UNCHANGED <<queue, inflight, delivered, simVars, listVars>>

\* The message is deleted or times out: the registry drops its instance.
Expire ==
    /\ \E m \in Messages :
         /\ stage[m] # "Expired"
         /\ stage' = [stage EXCEPT ![m] = "Expired"]
    /\ UNCHANGED <<reg, queue, inflight, delivered, simVars, listVars>>

\* A callback for a message whose instance is gone is dropped with a warning.
Drop ==
    /\ \E m \in Messages :
         /\ queue[m] # <<>>
         /\ ~Routable(m)
         /\ queue' = [queue EXCEPT ![m] = Tail(@)]
    /\ UNCHANGED <<reg, inflight, delivered, stage, simVars, listVars>>

\* The platform delivers a callback for a rendered message, whether or not a
\* handler of that message is running or its instance is still registered.
Deliver ==
    /\ delivered < MaxDeliveries
    /\ \E m \in Messages :
         /\ stage[m] # "Initial"
         /\ \/ \E c \in RegClicks :
                  queue' = [queue EXCEPT ![m] = Append(@, Callback(delivered + 1, "component", c))]
            \/ \E sub \in RegSubmissions :
                  queue' = [queue EXCEPT ![m] = Append(@, Callback(delivered + 1, "modal", sub))]
    /\ delivered' = delivered + 1
    /\ UNCHANGED <<reg, inflight, stage, simVars, listVars>>

\* The registry routes the oldest callback of a message to its instance.
Begin ==
    /\ \E m \in Messages :
         /\ queue[m] # <<>>
         /\ Routable(m)
         /\ Exclusive(m)
         /\ inflight' = [inflight EXCEPT ![m] = @ \cup {Invocation(Head(queue[m]), "handler")}]
         /\ queue' = [queue EXCEPT ![m] = Tail(@)]
    /\ UNCHANGED <<reg, delivered, stage, simVars, listVars>>

Advance(m, inv, pc) == [inflight EXCEPT ![m] = (@ \ {inv}) \cup {[inv EXCEPT !.pc = pc]}]

\* The invocation runs handle_component or handle_modal on its instance.
RunHandler ==
    /\ \E m \in Messages :
         \E inv \in inflight[m] :
            /\ inv.pc = "handler"
            /\ \/ /\ inv.kind = "component"
                  /\ LET out == handle_component(reg[m].data, reg[m].defer,
                                                 reg[m].msg_owner, inv.ev)
                     IN  /\ reg' = [reg EXCEPT ![m].data = out.data, ![m].defer = out.defer]
                         /\ inflight' = Advance(m, inv, IF out.result = "BuildPage"
                                                        THEN "render" ELSE "done")
               \/ /\ inv.kind = "modal"
                  /\ LET out == handle_modal(reg[m].data, reg[m].map.mode,
                                             reg[m].msg_owner, inv.ev)
                     IN  /\ reg' = [reg EXCEPT ![m].data = out.data]
                         /\ inflight' = Advance(m, inv, IF out.result = "Ok"
                                                        THEN "render" ELSE "done")
    /\ UNCHANGED <<queue, delivered, stage, simVars, listVars>>

\* The invocation renders the page with build_page; the edit of a message
\* that is gone fails and nothing more happens.
Render ==
    /\ \E m \in Messages :
         \E inv \in inflight[m] :
            /\ inv.pc = "render"
            /\ LET out == build_page(reg[m].map, reg[m].data, reg[m].defer)
               IN  reg' = [reg EXCEPT ![m].map = out.map, ![m].defer = out.defer]
            /\ inflight' = Advance(m, inv, "done")
    /\ UNCHANGED <<queue, delivered, stage, simVars, listVars>>

\* The invocation is over and gives the entry back.
End ==
    /\ \E m \in Messages :
         \E inv \in inflight[m] :
            /\ inv.pc = "done"
            /\ inflight' = [inflight EXCEPT ![m] = @ \ {inv}]
    /\ UNCHANGED <<reg, queue, delivered, stage, simVars, listVars>>

\* ------------------------------------------------------------------ pager

\* Entries a paginated list holds at most, and the largest page size.
MaxEntries == 12

MaxPerPage == 5

\* How far a requested page number lies outside 1..last_page at most.
MaxOvershoot == 1

Min(a, b) == IF a < b THEN a ELSE b

Max(a, b) == IF a > b THEN a ELSE b

Clamp(k, lo, hi) == Max(lo, Min(k, hi))

\* Pages: the offset of the page's first entry, the page size, and the
\* number of entries it pages over.
Pages_new(per_page, amount) == [index |-> 0, per_page |-> per_page, total |-> amount]

\* Offset of the first entry of the last page.
last_index(pg) ==
    IF pg.total = 0 THEN 0 ELSE ((pg.total - 1) \div pg.per_page) * pg.per_page

curr_page(pg) == pg.index \div pg.per_page + 1

last_page(pg) == last_index(pg) \div pg.per_page + 1

\* Faulty variant: next_page steps past the last page.
next_page_NoSaturation(pg) == [pg EXCEPT !.index = @ + pg.per_page]

\* Faulty variant: next_page on the last page wraps to the first.
next_page_Wrap(pg) ==
    [pg EXCEPT !.index = IF @ + pg.per_page > last_index(pg) THEN 0 ELSE @ + pg.per_page]

next_page(pg) == [pg EXCEPT !.index = Min(@ + pg.per_page, last_index(pg))]

\* Faulty variant: prev_page steps back by one entry.
prev_page_ByOne(pg) == [pg EXCEPT !.index = Max(@ - 1, 0)]

prev_page(pg) == [pg EXCEPT !.index = Max(@ - pg.per_page, 0)]

\* Faulty variant: jump clamps from below only.
jump_NoUpperClamp(pg, k) == [pg EXCEPT !.index = (Max(k, 1) - 1) * pg.per_page]

jump(pg, k) == [pg EXCEPT !.index = (Clamp(k, 1, last_page(pg)) - 1) * pg.per_page]

first_page(pg) == [pg EXCEPT !.index = 0]

final_page(pg) == [pg EXCEPT !.index = last_index(pg)]

\* TopIfPagination: five entries a page.
TopIfPerPage == 5

\* TopIfPagination::build_page: the entries of the page and the footer's
\* "Page curr/last"; the slice panics when its start lies behind its end.
\* Faulty variant: the page is taken to be full.
TopIf_build_page_FullPage(pg, len) ==
    LET end_idx == pg.index + pg.per_page
    IN  IF pg.index > end_idx \/ end_idx > len
        THEN [result |-> "panic", from |-> pg.index, to |-> end_idx, curr |-> 0, final |-> 0,
              defer |-> FALSE, pages |-> pg]
        ELSE [result |-> "Ok", from |-> pg.index, to |-> end_idx, curr |-> curr_page(pg),
              final |-> last_page(pg), defer |-> FALSE, pages |-> pg]

\* Faulty variant: rendering turns the page.
TopIf_build_page_TurnsPage(pg, len) ==
    LET end_idx == Min(len, pg.index + pg.per_page)
    IN  IF pg.index > end_idx
        THEN [result |-> "panic", from |-> pg.index, to |-> end_idx, curr |-> 0, final |-> 0,
              defer |-> FALSE, pages |-> pg]
        ELSE [result |-> "Ok", from |-> pg.index, to |-> end_idx, curr |-> curr_page(pg),
              final |-> last_page(pg), defer |-> FALSE, pages |-> next_page(pg)]

TopIf_build_page(pg, len) ==
    LET end_idx == Min(len, pg.index + pg.per_page)
    IN  IF pg.index > end_idx
        THEN [result |-> "panic", from |-> pg.index, to |-> end_idx, curr |-> 0, final |-> 0,
              defer |-> FALSE, pages |-> pg]
        ELSE [result |-> "Ok", from |-> pg.index, to |-> end_idx, curr |-> curr_page(pg),
              final |-> last_page(pg), defer |-> FALSE, pages |-> pg]

\* The pagination call last made: the page number asked for, the page the
\* pager was on before, and for build_page the slice it showed.
Paged(op, k, before, from, to, result) ==
    [op |-> op, k |-> k, before |-> before, from |-> from, to |-> to, result |-> result]

PagerStart(per_page, amount) ==
    /\ pages = Pages_new(per_page, amount)
    /\ paged = Paged("new", 0, 1, 0, 0, "Ok")
    /\ trail = 0

JumpTargets(pg) == (0 - MaxOvershoot) .. (last_page(pg) + MaxOvershoot)

\* The buttons under a paginated list, and what is typed into the page
\* number form.
PaginationIds ==
    {"pagination_start", "pagination_back", "pagination_custom", "pagination_step",
     "pagination_end"}

PageTexts == {<<>>, <<"0">>, <<"2">>, <<"9">>, <<"a">>}

\* Pages::components: the five buttons.
Pages_components(pg) == PaginationIds

\* handle_pagination_component: the owner's buttons turn the page or open the
\* page number form; anything else is ignored.
handle_pagination_component(custom_id, user, owner, defer_flag, pg) ==
    IF user # owner THEN [result |-> "Ignore", pages |-> pg]
    ELSE CASE custom_id = "pagination_start" -> [result |-> "BuildPage", pages |-> first_page(pg)]
           [] custom_id = "pagination_back" -> [result |-> "BuildPage", pages |-> prev_page(pg)]
           [] custom_id = "pagination_step" -> [result |-> "BuildPage", pages |-> next_page(pg)]
           [] custom_id = "pagination_end" -> [result |-> "BuildPage", pages |-> final_page(pg)]
           [] custom_id = "pagination_custom" -> [result |-> "CreateModal", pages |-> pg]
           [] OTHER -> [result |-> "Ignore", pages |-> pg]

\* handle_pagination_modal: the owner's page number is jumped to; a text that
\* is no number leaves the page.
handle_pagination_modal(text, user, owner, defer_flag, pg) ==
    IF user # owner THEN [result |-> "Ok", pages |-> pg]
    ELSE IF ~IsDigits(text) THEN [result |-> "Ok", pages |-> pg]
    ELSE [result |-> "Ok", pages |-> jump(pg, DigitsValue(text))]

\* TopIfPagination::build_components.
TopIf_build_components(pg) == [components |-> Pages_components(pg), pages |-> pg]

\* TopIfPagination::handle_component and handle_modal.
TopIf_handle_component(custom_id, user, owner, pg) ==
    handle_pagination_component(custom_id, user, owner, FALSE, pg)

TopIf_handle_modal(text, user, owner, pg) ==
    handle_pagination_modal(text, user, owner, FALSE, pg)

\* The call last made on the list: who sent the event and what, the Pages
\* before, the result, and for build_page the slice and the entries shown.
TopIfCall(op, user, input, before, result, from, to, shown) ==
    [op |-> op, user |-> user, input |-> input, before |-> before, result |-> result,
     from |-> from, to |-> to, shown |-> shown]

TopIfEntries(n) == [i \in 1 .. n |-> i]

TopIfStart ==
    /\ topif_entries = <<>>
    /\ tcall = TopIfCall("new", "", <<>>, Pages_new(TopIfPerPage, 0), "Ok", 0, 0, <<>>)

\* ------------------------------------------------------------------ match live

\* Matches that exist, and threads a behaviour creates at most.
MaxMatches == 4

MaxThreads == 1

\* A channel tracks at most three matches.
MaxTracked == 3

MatchIds == 1 .. MaxMatches

ThreadNames == <<"thread1", "thread2", "thread3">>

Threads == {ThreadNames[i] : i \in 1 .. MaxThreads}

Channels == {"channel"} \cup Threads

\* What is typed as match url: a match id, the link to match 1, or neither.
LinkPrefix == <<"m", "p", "/">>

MatchTexts ==
    {<<CHOOSE c \in DOMAIN DigitVal : DigitVal[c] = id>> : id \in MatchIds}
    \cup {LinkPrefix \o <<"1">>, <<"a">>}

\* matcher::get_osu_match_id: the id, as typed or at the end of a match link.
get_osu_match_id(text) ==
    IF IsDigits(text) THEN Some(DigitsValue(text))
    ELSE IF Len(text) > Len(LinkPrefix) /\ SubSeq(text, 1, Len(LinkPrefix)) = LinkPrefix
            /\ IsDigits(SubSeq(text, Len(LinkPrefix) + 1, Len(text)))
    THEN Some(DigitsValue(SubSeq(text, Len(LinkPrefix) + 1, Len(text))))
    ELSE None

parse_match_id(match_url) ==
    IF get_osu_match_id(match_url) # None
    THEN [ok |-> TRUE, value |-> Unwrap(get_osu_match_id(match_url))]
    ELSE ParseErr

\* Context::tracks_single_match: the match of a channel that tracks exactly one.
tracks_single_match(tr, channel) ==
    IF Cardinality(tr[channel]) = 1 THEN tr[channel] ELSE None

\* Context::remove_match_track: whether the channel tracked the match, and
\* the tracking without it.
remove_match_track(tr, channel, match_id) ==
    [removed |-> match_id \in tr[channel],
     tracked |-> [tr EXCEPT ![channel] = @ \ {match_id}]]

\* Context::add_match_track; api is what the osu!api answers for the match.
add_match_track(tr, channel, match_id, api) ==
    IF match_id \in tr[channel] THEN [result |-> "Duplicate", tracked |-> tr]
    ELSE IF Cardinality(tr[channel]) >= MaxTracked THEN [result |-> "Capped", tracked |-> tr]
    ELSE IF api # "Ok" THEN [result |-> api, tracked |-> tr]
    ELSE [result |-> "Added", tracked |-> [tr EXCEPT ![channel] = @ \cup {match_id}]]

\* What a matchlive command leaves behind: the tracking, the threads, its
\* reply, the match id it worked on and the thread it created.
MatchOutcome(tr, th, reply, match_id, created) ==
    [tracked |-> tr, threads |-> th, reply |-> reply, match_id |-> match_id,
     created |-> created]

\* Faulty variant: without a match id the command takes any match of the channel.
matchliveremove_AnyTracked(tr, th, channel, args) ==
    LET parsed == IF args = None THEN ParseErr ELSE parse_match_id(Unwrap(args))
        single == IF tr[channel] = {} THEN None
                  ELSE {CHOOSE id \in tr[channel] : \A other \in tr[channel] : id <= other}
    IN  IF args # None /\ ~parsed.ok THEN MatchOutcome(tr, th, "ParseError", None, None)
        ELSE IF args = None /\ single = None
        THEN MatchOutcome(tr, th, "NotExactlyOne", None, None)
        ELSE LET match_id == IF args # None THEN parsed.value ELSE Unwrap(single)
                 res == remove_match_track(tr, channel, match_id)
             IN  IF res.removed
                 THEN MatchOutcome(res.tracked, th, "Stopped", Some(match_id), None)
                 ELSE MatchOutcome(res.tracked, th, "NotTracked", Some(match_id), None)

matchliveremove(tr, th, channel, args) ==
    LET parsed == IF args = None THEN ParseErr ELSE parse_match_id(Unwrap(args))
        single == tracks_single_match(tr, channel)
    IN  IF args # None /\ ~parsed.ok THEN MatchOutcome(tr, th, "ParseError", None, None)
        ELSE IF args = None /\ single = None
        THEN MatchOutcome(tr, th, "NotExactlyOne", None, None)
        ELSE LET match_id == IF args # None THEN parsed.value ELSE Unwrap(single)
                 res == remove_match_track(tr, channel, match_id)
             IN  IF res.removed
                 THEN MatchOutcome(res.tracked, th, "Stopped", Some(match_id), None)
                 ELSE MatchOutcome(res.tracked, th, "NotTracked", Some(match_id), None)

\* The prefix command: an argument that is no match id ends it, no argument
\* leaves the match to matchliveremove.
prefix_matchliveremove(tr, th, channel, arg) ==
    IF arg # None /\ ~parse_match_id(Unwrap(arg)).ok
    THEN MatchOutcome(tr, th, "ParseError", None, None)
    ELSE matchliveremove(tr, th, channel, arg)

\* The circumstances of a matchlive track command: whether it runs in a guild,
\* whether the bot may create threads, what creating the thread gives, and
\* what the osu!api answers.
TrackEnv(guild, can_create_thread, create, api) ==
    [guild |-> guild, can_create_thread |-> can_create_thread, create |-> create, api |-> api]

ApiAnswers == {"Ok", "Error", "NotFound", "Private"}

\* The circumstances that tell runs of the command apart: those of the thread
\* matter only when a thread is asked for, the osu!api is asked only when
\* the command gets as far.
TrackEnvs(thread) ==
    IF thread
    THEN {TrackEnv(FALSE, TRUE, "Ok", "Ok"), TrackEnv(TRUE, FALSE, "Ok", "Ok"),
          TrackEnv(TRUE, TRUE, "Unavailable", "Ok"), TrackEnv(TRUE, TRUE, "Failed", "Ok")}
         \cup {TrackEnv(TRUE, TRUE, "Ok", api) : api \in ApiAnswers}
    ELSE {TrackEnv(TRUE, TRUE, "Ok", api) : api \in ApiAnswers}

FreeThreads(th) == Threads \ th

matchlive(tr, th, channel, match_url, thread, env) ==
    LET parsed == parse_match_id(match_url)
    IN  IF ~parsed.ok THEN MatchOutcome(tr, th, "ParseError", None, None)
        ELSE IF thread /\ ~env.guild
        THEN MatchOutcome(tr, th, "ThreadsUnavailable", Some(parsed.value), None)
        ELSE IF thread /\ ~env.can_create_thread
        THEN MatchOutcome(tr, th, "MissingPermission", Some(parsed.value), None)
        ELSE IF thread /\ env.create = "Unavailable"
        THEN MatchOutcome(tr, th, "ThreadsUnavailable", Some(parsed.value), None)
        ELSE IF thread /\ env.create = "Failed"
        THEN MatchOutcome(tr, th, "Err", Some(parsed.value), None)
        ELSE LET new == CHOOSE t \in FreeThreads(th) : TRUE
                 target == IF thread THEN new ELSE channel
                 th2 == IF thread THEN th \cup {new} ELSE th
                 res == add_match_track(tr, target, parsed.value, env.api)
             IN  MatchOutcome(res.tracked, th2, res.result, Some(parsed.value),
                              IF thread THEN Some(new) ELSE None)

\* The matchlive command last run: where, with what argument, what the
\* channel tracked before, and what came of it; env is set to the
\* circumstances of a matchlive track command.
MatchCall(op, channel, arg, thread, before, out) ==
    [op |-> op, channel |-> channel, arg |-> arg, thread |-> thread, before |-> before,
     reply |-> out.reply, match_id |-> out.match_id, created |-> out.created,
     env |-> TrackEnv(FALSE, FALSE, "", "")]

\* No command is being answered.
NoMatchCall ==
    MatchCall("idle", "channel", None, FALSE, {}, MatchOutcome(<<>>, {}, "", None, None))

MatchStart ==
    /\ tracked = [c \in Channels |-> {}]
    /\ threads = {}
    /\ mcall = NoMatchCall

\* ------------------------------------------------------------------ attribute cache

\* Maps the scores of one process_scores run refer to, and its scores.
MaxMaps == 2

MaxScores == 4

MapIds == 1 .. MaxMaps

GameMods == {"NM", "HD"}

\* A fetched map: what Beatmap::check_suspicion finds and what its
\* difficulty builds on.
Beatmap(id, suspicious) == [map_id |-> id, base |-> 10 * id, suspicious |-> suspicious]

\* The maps fetched for the scores: a map may be missing.
FetchedMaps ==
    {f \in [MapIds -> {None} \cup {Some(Beatmap(id, b)) : id \in MapIds, b \in BOOLEAN}] :
        \A id \in MapIds : f[id] = None \/ Unwrap(f[id]).map_id = id}

Score(map_id, mods, lazer) == [map_id |-> map_id, mods |-> mods, set_on_lazer |-> lazer]

Scores == {Score(id, mods, lazer) : id \in MapIds, mods \in GameMods, lazer \in BOOLEAN}

Key(map_id, mods, lazer) == [map_id |-> map_id, mods |-> mods, lazer |-> lazer]

Keys == {Key(id, mods, lazer) : id \in MapIds, mods \in GameMods, lazer \in BOOLEAN}

KeyOf(score) == Key(score.map_id, score.mods, score.set_on_lazer)

check_suspicion(beatmap) == IF beatmap.suspicious THEN "Err" ELSE "Ok"

\* Difficulty::new().mods(mods).lazer(lazer).calculate(beatmap)
calculate(beatmap, mods, lazer) ==
    [stars |-> beatmap.base + (IF mods = "HD" THEN 2 ELSE 0) + (IF lazer THEN 1 ELSE 0),
     max_combo |-> 100 * beatmap.map_id]

CachedEntry(map_id, lazer, mods, attrs) ==
    [map_id |-> map_id, lazer |-> lazer, mods |-> mods, attrs |-> attrs]

\* Faulty variant: the lookup leaves the lazer flag out of the key.
find_IgnoresLazer(entries, score) ==
    LET hits == {i \in 1 .. Len(entries) :
                    entries[i].map_id = score.map_id /\ entries[i].mods = score.mods}
    IN  IF hits = {} THEN None ELSE Some(entries[CHOOSE i \in hits : \A j \in hits : i <= j])

\* The first entry with the score's beatmap id, mods and lazer flag.
find(entries, score) ==
    LET hits == {i \in 1 .. Len(entries) :
                    /\ entries[i].map_id = score.map_id
                    /\ entries[i].mods = score.mods
                    /\ entries[i].lazer = score.set_on_lazer}
    IN  IF hits = {} THEN None ELSE Some(entries[CHOOSE i \in hits : \A j \in hits : i <= j])

GetOutcome(entries, result, hit, guarded, calculated) ==
    [entries |-> entries, result |-> result, hit |-> hit, guarded |-> guarded,
     calculated |-> calculated]

\* Faulty variant: a rejected beatmap is remembered as having no attributes (the
\* entries of this variant hold optional attributes).
get_NegativeCache(entries, beatmap, score) ==
    LET res == find(entries, score)
    IN  IF res # None THEN GetOutcome(entries, Unwrap(res).attrs, TRUE, FALSE, FALSE)
        ELSE IF check_suspicion(beatmap) = "Err"
        THEN GetOutcome(Append(entries, CachedEntry(score.map_id, score.set_on_lazer,
                                                    score.mods, None)),
                        None, FALSE, TRUE, FALSE)
        ELSE LET attrs == calculate(beatmap, score.mods, score.set_on_lazer)
             IN  GetOutcome(Append(entries, CachedEntry(score.map_id, score.set_on_lazer,
                                                        score.mods, Some(attrs))),
                            Some(attrs), FALSE, TRUE, TRUE)

\* Faulty variant: a hit is calculated and stored again.
get_Recalculate(entries, beatmap, score) ==
    IF check_suspicion(beatmap) = "Err" THEN GetOutcome(entries, None, FALSE, TRUE, FALSE)
    ELSE LET attrs == calculate(beatmap, score.mods, score.set_on_lazer)
         IN  GetOutcome(Append(entries, CachedEntry(score.map_id, score.set_on_lazer,
                                                    score.mods, attrs)),
                        Some(attrs), find(entries, score) # None, TRUE, TRUE)

\* Faulty variant: a miss on a full cache evicts the oldest entry.
get_Evicting(entries, beatmap, score) ==
    LET res == find(entries, score)
    IN  IF res # None THEN GetOutcome(entries, Some(Unwrap(res).attrs), TRUE, FALSE, FALSE)
        ELSE IF check_suspicion(beatmap) = "Err" THEN GetOutcome(entries, None, FALSE, TRUE, FALSE)
        ELSE LET attrs == calculate(beatmap, score.mods, score.set_on_lazer)
                 kept == IF Len(entries) >= 2 THEN Tail(entries) ELSE entries
             IN  GetOutcome(Append(kept, CachedEntry(score.map_id, score.set_on_lazer,
                                                     score.mods, attrs)),
                            Some(attrs), FALSE, TRUE, TRUE)

\* CachedAttributes::get: the entries afterwards and the attributes returned.
get(entries, beatmap, score) ==
    LET res == find(entries, score)
    IN  IF res # None THEN GetOutcome(entries, Some(Unwrap(res).attrs), TRUE, FALSE, FALSE)
        ELSE IF check_suspicion(beatmap) = "Err" THEN GetOutcome(entries, None, FALSE, TRUE, FALSE)
        ELSE LET attrs == calculate(beatmap, score.mods, score.set_on_lazer)
             IN  GetOutcome(Append(entries, CachedEntry(score.map_id, score.set_on_lazer,
                                                        score.mods, attrs)),
                            Some(attrs), FALSE, TRUE, TRUE)

\* The get call last made: its score, what it returned, and whether it was a
\* hit; op tells a score whose map is missing and the end of the run.
Probe(op, score, out) ==
    [op |-> op, score |-> score, result |-> out.result, hit |-> out.hit,
     guarded |-> out.guarded, calculated |-> out.calculated]

NoGet == GetOutcome(<<>>, None, FALSE, FALSE, FALSE)

NoScore == Score(0, "NM", FALSE)

CacheStart(fetched) ==
    /\ cache = <<>>
    /\ maps = fetched
    /\ probe = Probe("new", NoScore, NoGet)
    /\ calcs = [k \in Keys |-> 0]
    /\ guards = [id \in MapIds |-> 0]
    /\ answers = [k \in Keys |-> <<>>]
    /\ scored = 0

\* ------------------------------------------------------------------ recent list

\* Arguments typed after a prefix command, and scores the osu!api returns.
MaxArgs == 2

MaxListLen == 2

\* Grades a score can have, and the grades a command can ask for.
ScoreGrades == {"F", "A", "XH"}

GradeOptions == {"F", "A", "SS"}

\* Grade::from(GradeOption).
Grade_from(option) == IF option = "SS" THEN "X" ELSE option

\* Grade::eq_letter: the silver grades count as their letter.
eq_letter(grade, other) ==
    LET Letter(g) == IF g = "XH" THEN "X" ELSE IF g = "SH" THEN "S" ELSE g
    IN  Letter(grade) = Letter(other)

\* What is typed after the command, argument by argument.
ArgTokens ==
    {<<"p", "=", "t">>, <<"f", "=", "t">>, <<"g", "=", "a">>, <<"g", "=", "f">>,
     <<"G", "=", "S", "S">>, <<"x", "=", "1">>, <<"p", "=", "x">>, <<"b">>}

ArgLists == UNION {[1 .. n -> ArgTokens] : n \in 0 .. MaxArgs}

AsciiLower ==
    [c \in {"A", "F", "G", "P", "S", "T"} |->
        CASE c = "A" -> "a" [] c = "F" -> "f" [] c = "G" -> "g"
          [] c = "P" -> "p" [] c = "S" -> "s" [] c = "T" -> "t"]

cow_to_ascii_lowercase(text) ==
    [i \in 1 .. Len(text) |-> IF text[i] \in DOMAIN AsciiLower THEN AsciiLower[text[i]] ELSE text[i]]

RECURSIVE trim_end(_)
trim_end(text) ==
    IF text # <<>> /\ text[Len(text)] = " " THEN trim_end(SubSeq(text, 1, Len(text) - 1))
    ELSE text

\* str::find('='): where the first '=' is, counted from 0.
find_eq(arg) ==
    LET at == {i \in 1 .. Len(arg) : arg[i] = "="}
    IN  IF at = {} THEN None ELSE Some((CHOOSE i \in at : \A j \in at : i <= j) - 1)

\* matcher::get_mention_user: the user a mention names.
get_mention_user(arg) ==
    IF Len(arg) > 3 /\ arg[1] = "<" /\ arg[2] = "@" /\ arg[Len(arg)] = ">"
       /\ IsDigits(SubSeq(arg, 3, Len(arg) - 1))
    THEN Some(DigitsValue(SubSeq(arg, 3, Len(arg) - 1)))
    ELSE None

PassKeys == {<<"p", "a", "s", "s">>, <<"p">>, <<"p", "a", "s", "s", "e", "s">>}

FailKeys == {<<"f", "a", "i", "l">>, <<"f", "a", "i", "l", "s">>, <<"f">>}

GradeKeys == {<<"g", "r", "a", "d", "e">>, <<"g">>}

TrueTexts == {<<"t", "r", "u", "e">>, <<"t">>, <<"1">>}

FalseTexts == {<<"f", "a", "l", "s", "e">>, <<"f">>, <<"0">>}

\* GradeOption::from_str, for the grades of the model.
GradeOption_from_str(value) ==
    IF value = <<"s", "s">> THEN Some("SS")
    ELSE IF value = <<"a">> THEN Some("A")
    ELSE IF value = <<"f">> THEN Some("F")
    ELSE None

\* The RecentList of a command; query and mods are not given, sort and unique
\* only by the slash command.
RecentList(name, discord, grade, passes) ==
    [name |-> name, discord |-> discord, grade |-> grade, passes |-> passes, unique |-> None,
     sort |-> None]

\* RecentList::args, one argument: None is the Err that ends the parse.
args_arg(acc, arg) ==
    LET idx == find_eq(arg)
    IN  IF idx # None /\ Unwrap(idx) > 0
        THEN LET key == SubSeq(arg, 1, Unwrap(idx))
                 value == trim_end(SubSeq(arg, Unwrap(idx) + 2, Len(arg)))
             IN  IF key \in PassKeys
                 THEN IF value \in TrueTexts THEN Some([acc EXCEPT !.passes = Some(TRUE)])
                      ELSE IF value \in FalseTexts THEN Some([acc EXCEPT !.passes = Some(FALSE)])
                      ELSE None
                 ELSE IF key \in FailKeys
                 THEN IF value \in TrueTexts THEN Some([acc EXCEPT !.passes = Some(FALSE)])
                      ELSE IF value \in FalseTexts THEN Some([acc EXCEPT !.passes = Some(TRUE)])
                      ELSE None
                 ELSE IF key \in GradeKeys
                 THEN IF GradeOption_from_str(value) # None
                      THEN Some([acc EXCEPT !.grade = GradeOption_from_str(value)])
                      ELSE None
                 ELSE None
        ELSE IF get_mention_user(arg) # None
        THEN Some([acc EXCEPT !.discord = get_mention_user(arg)])
        ELSE Some([acc EXCEPT !.name = Some(arg)])

RECURSIVE args_loop(_, _)
args_loop(acc, rest) ==
    IF rest = <<>> \/ acc = None THEN acc
    ELSE args_loop(args_arg(Unwrap(acc), cow_to_ascii_lowercase(Head(rest))), Tail(rest))

\* Faulty variant: every argument typed is read.
RecentList_args_ReadsAll(args) ==
    LET parsed == args_loop(Some(RecentList(None, None, None, None)), args)
    IN  IF parsed = None THEN None
        ELSE IF Unwrap(parsed).passes # None THEN Some([Unwrap(parsed) EXCEPT !.grade = None])
        ELSE parsed

\* RecentList::args: at most three arguments are read; a pass or fail option
\* unsets the grade.
RecentList_args(args) ==
    LET parsed == args_loop(Some(RecentList(None, None, None, None)),
                            SubSeq(args, 1, Min(3, Len(args))))
    IN  IF parsed = None THEN None
        ELSE IF Unwrap(parsed).passes # None THEN Some([Unwrap(parsed) EXCEPT !.grade = None])
        ELSE parsed

\* The grade list and process_scores filter by.
Grade_of(args) == IF args.grade = None THEN None ELSE Some(Grade_from(Unwrap(args.grade)))

\* list: whether failed scores are asked for; None when the command is refused.
\* Faulty variant: without a passes option failed scores are asked for only
\* when no grade is given.
include_fails_GradeExcludes(grade, passes) ==
    IF grade = Some("F") /\ passes = Some(TRUE) THEN None
    ELSE IF passes # None THEN Some(~Unwrap(passes))
    ELSE IF grade = None THEN Some(TRUE)
    ELSE Some(FALSE)

include_fails(grade, passes) ==
    IF grade = Some("F") /\ passes = Some(TRUE) THEN None
    ELSE IF passes # None THEN Some(~Unwrap(passes))
    ELSE IF grade = Some("F") \/ grade = None THEN Some(TRUE)
    ELSE Some(FALSE)

\* A score as it comes from the osu!api.
ListScores == [map_id : MapIds, passed : BOOLEAN, grade : ScoreGrades]

ScoreLists == UNION {[1 .. n -> ListScores] : n \in 0 .. MaxListLen}

\* process_scores, score_filter without query and mods: a grade decides
\* before passes is looked at.
score_filter(args, score) ==
    IF Grade_of(args) # None
    THEN IF Unwrap(Grade_of(args)) = "F" THEN ~score.passed
         ELSE eq_letter(score.grade, Unwrap(Grade_of(args)))
    ELSE IF args.passes # None THEN Unwrap(args.passes) = score.passed
    ELSE TRUE

RecentListEntry(idx, score) == [idx |-> idx, map_id |-> score.map_id, score |-> score]

RECURSIVE entries_from(_, _, _, _)
entries_from(scores, args, fetched, i) ==
    IF i > Len(scores) THEN <<>>
    ELSE (IF score_filter(args, scores[i]) /\ scores[i].map_id \in fetched
          THEN <<RecentListEntry(i - 1, scores[i])>>
          ELSE <<>>) \o entries_from(scores, args, fetched, i + 1)

\* The bpm of a map.
bpm(map_id) == 60 + 60 * map_id

\* ScoreOrder::Bpm: the comparator looks both entries' maps up and expects
\* them; a stable sort of two entries or more compares every entry.
sort_missing_map(entries, sort, fetched) ==
    /\ sort = Some("Bpm")
    /\ Len(entries) >= 2
    /\ \E i \in 1 .. Len(entries) : entries[i].map_id \notin fetched

\* entries.sort_by for ScoreOrder::Bpm: the higher bpm first, entries of one
\* bpm in the order they had.
RECURSIVE sort_by_bpm(_)
sort_by_bpm(entries) ==
    IF Len(entries) < 2 THEN entries
    ELSE LET sorted == sort_by_bpm(SubSeq(entries, 1, Len(entries) - 1))
             entry == entries[Len(entries)]
             k == Cardinality({i \in 1 .. Len(sorted) :
                                  bpm(sorted[i].map_id) >= bpm(entry.map_id)})
         IN  SubSeq(sorted, 1, k) \o <<entry>> \o SubSeq(sorted, k + 1, Len(sorted))

\* process_scores, match sort.
sort_entries(entries, sort) == IF sort = Some("Bpm") THEN sort_by_bpm(entries) ELSE entries

\* Faulty variant: every score that passes the filter becomes an entry,
\* whether its map was fetched or not.
process_scores_KeepsMapless(scores, args, available) ==
    LET wanted == {scores[i].map_id : i \in {j \in 1 .. Len(scores) : score_filter(args, scores[j])}}
        fetched == wanted \cap available
        entries == entries_from(scores, args, wanted, 1)
    IN  [entries |-> sort_entries(entries, args.sort), maps |-> fetched,
         missing_map |-> sort_missing_map(entries, args.sort, fetched)]

\* process_scores: the maps of the scores that pass the filter are fetched, as
\* far as they are available, and every such score with a map becomes an
\* entry; the entries are sorted as asked. missing_map: a comparator found no
\* map for an entry.
process_scores(scores, args, available) ==
    LET wanted == {scores[i].map_id : i \in {j \in 1 .. Len(scores) : score_filter(args, scores[j])}}
        fetched == wanted \cap available
        entries == entries_from(scores, args, fetched, 1)
    IN  [entries |-> sort_entries(entries, args.sort), maps |-> fetched,
         missing_map |-> sort_missing_map(entries, args.sort, fetched)]

\* ---- process_scores with the unique option of the slash command

MaxUniqueLen == 3

MaxValue == 2

UniqueOptions == {"HighestPp", "HighestScore"}

ModCombos == {"NM", "HD"}

\* A score with what the unique option reads of it.
UniqueScores ==
    [map_id : MapIds, passed : {TRUE}, grade : {"A"}, mods : ModCombos,
     pp : 1 .. MaxValue, score : 1 .. MaxValue, ended_at : 1 .. MaxValue]

UniqueScoreLists == UNION {[1 .. n -> UniqueScores] : n \in 1 .. MaxUniqueLen}

Orders(n) == {p \in [1 .. n -> 1 .. n] : \A i, j \in 1 .. n : p[i] = p[j] => i = j}

\* The comparator given to sort_unstable_by: by map, then Less for any two
\* entries of different mods, then the higher pp (or score) first.
unique_cmp(unique, a, b) ==
    IF a.map_id < b.map_id THEN "Less"
    ELSE IF a.map_id > b.map_id THEN "Greater"
    ELSE IF a.score.mods # b.score.mods THEN "Less"
    ELSE IF unique = "HighestPp"
    THEN (IF b.score.pp < a.score.pp THEN "Less"
          ELSE IF b.score.pp > a.score.pp THEN "Greater" ELSE "Equal")
    ELSE (IF b.score.score < a.score.score THEN "Less"
          ELSE IF b.score.score > a.score.score THEN "Greater" ELSE "Equal")

\* Whether the comparator is a total order on these entries: it is not as
\* soon as two of them are on one map with different mods, each being Less
\* than the other.
unique_cmp_total(unique, entries) ==
    \A i, j \in 1 .. Len(entries) :
        ~(/\ i # j
          /\ unique_cmp(unique, entries[i], entries[j]) = "Less"
          /\ unique_cmp(unique, entries[j], entries[i]) = "Less")

\* slice::sort_unstable_by: under a total order, any arrangement in which no
\* entry is Greater than a later one; otherwise the order of the elements
\* is unspecified.
sort_unstable_by(unique, entries) ==
    {[i \in 1 .. Len(entries) |-> entries[p[i]]] :
        p \in {q \in Orders(Len(entries)) :
                  unique_cmp_total(unique, entries)
                     => \A i, j \in 1 .. Len(entries) :
                           i < j => unique_cmp(unique, entries[q[i]], entries[q[j]]) # "Greater"}}

\* Vec::dedup_by: of consecutive entries of one map and mods the first stays.
RECURSIVE dedup_by(_)
dedup_by(entries) ==
    IF Len(entries) < 2 THEN entries
    ELSE LET rest == dedup_by(SubSeq(entries, 1, Len(entries) - 1))
             a == entries[Len(entries)]
             b == rest[Len(rest)]
         IN  IF a.map_id = b.map_id /\ a.score.mods = b.score.mods THEN rest
             ELSE Append(rest, a)

\* sort_unstable_by_key(Reverse(ended_at)): the latest first, entries of one
\* time in any order.
sort_unstable_by_key(entries) ==
    {[i \in 1 .. Len(entries) |-> entries[p[i]]] :
        p \in {q \in Orders(Len(entries)) :
                  \A i, j \in 1 .. Len(entries) :
                      i < j => entries[q[i]].score.ended_at >= entries[q[j]].score.ended_at}}

\* process_scores, match unique: the lists the entries can become.
unique_entries(unique, entries) ==
    IF unique = None THEN {entries}
    ELSE UNION {sort_unstable_by_key(dedup_by(sorted)) :
                   sorted \in sort_unstable_by(Unwrap(unique), entries)}

\* process_scores with its unique step: what it can return.
process_scores_unique(scores, args, available) ==
    LET out == process_scores(scores, args, available)
    IN  {[entries |-> entries, maps |-> out.maps] :
            entries \in unique_entries(args.unique, out.entries)}

RecentCall(step, cmd, argv, args, fails, scores, entries, fetched, reply) ==
    [step |-> step, cmd |-> cmd, argv |-> argv, args |-> args, include_fails |-> fails,
     scores |-> scores, entries |-> entries, maps |-> fetched, reply |-> reply]

NoRecentCall == RecentCall("idle", "", <<>>, None, FALSE, <<>>, <<>>, {}, "")

RecentStart == rl = NoRecentCall

\* A paginated list of twelve entries, and a run over two fetched maps.
ListStart ==
    /\ PagerStart(TopIfPerPage, MaxEntries)
    /\ CacheStart([id \in MapIds |-> Some(Beatmap(id, FALSE))])
    /\ MatchStart
    /\ RecentStart
    /\ TopIfStart

\* ------------------------------------------------------------------ actions

\* The call last made on the instance, with its inputs and what it returned;
\* page is the BuildPage of a build_page call and prevPage the BuildPage of
\* the build_page call right before it, if that was the preceding call; for
\* a render that answers a component event, defers is that handler's count.
Call(op, user, id, rows, values, deferOk, result, modal, defers, forEvent, pg, prev) ==
    [op |-> op, user |-> user, custom_id |-> id, rows |-> rows, values |-> values,
     deferOk |-> deferOk, result |-> result, modal |-> modal, defers |-> defers,
     forEvent |-> forEvent, page |-> pg, prevPage |-> prev]

Idle(op) == Call(op, "", "", <<>>, <<>>, TRUE, "Ok", NoModal, 0, FALSE, None, None)

Init ==
    /\ \E s \in Sessions :
          /\ focus = s.focus
          /\ map = InitMap(s.mode)
          /\ data = IF s.full THEN FullData(DefaultVersion(s.mode))
                    ELSE EmptyData(DefaultVersion(s.mode))
    /\ defer = TRUE
    /\ msg_owner = "u1"
    /\ last = Idle("new")
    /\ renderPending = FALSE
    /\ evAcks = 0
    /\ streak = 0
    /\ RegStart
    /\ ListStart

Waiting == last.op \in {"new", "idle"}

NumericModalIds == IntModalIds \cup {"sim_acc"}

\* Progress through the sequence: the owner submits "150" to a numeric modal,
\* then the owner submits no value, then another user submits anything.
NextStreak(n, owner, m) ==
    IF m.custom_id \notin NumericModalIds \/ m.rows = <<>> THEN 0
    ELSE IF m.user = owner /\ m.rows[1].value = Some(<<"1", "5", "0">>) THEN 1
    ELSE IF n = 1 /\ m.user = owner /\ NonEmpty(m.rows[1].value) = None THEN 2
    ELSE IF n = 2 /\ m.user \in Users \ {owner} THEN 3
    ELSE 0

\* The dispatcher delivers a component event to handle_component.
HandleComponent ==
    /\ Waiting
    /\ \E c \in UNION {Clicks(focus, user) : user \in Users} \cup AnonymousClicks(focus) :
            LET out == handle_component(data, defer, msg_owner, c)
            IN  /\ data' = out.data
                /\ defer' = out.defer
                /\ last' = Call("component", c.user, c.custom_id, <<>>, c.values, c.deferOk,
                                out.result, out.modal, out.defers, FALSE, None, None)
                /\ renderPending' = (out.result = "BuildPage")
                /\ evAcks' = out.defers + DispatchAcks(out.result)
    /\ streak' = 0
    /\ UNCHANGED <<map, msg_owner, focus, regVars, listVars>>

\* The dispatcher delivers a modal submission to handle_modal.
HandleModal ==
    /\ Waiting
    /\ \E m \in UNION {Submissions(focus, user) : user \in Users}
                 \cup AnonymousSubmissions(focus) :
            LET out == handle_modal(data, map.mode, msg_owner, m)
            IN  /\ data' = out.data
                /\ last' = Call("modal", m.user, m.custom_id, m.rows, <<>>, TRUE,
                                out.result, NoModal, out.defers, FALSE, None, None)
                /\ evAcks' = out.defers
                /\ streak' = NextStreak(streak, msg_owner, m)
    /\ UNCHANGED <<map, defer, msg_owner, focus, renderPending, regVars, listVars>>

\* build_page: the render after a BuildPage result, the first render, or any
\* further call.
BuildPage ==
    /\ Waiting \/ renderPending \/ last.op = "build_page"
    /\ LET out == build_page(map, data, defer)
       IN  /\ map' = out.map
           /\ defer' = out.defer
           /\ last' = Call("build_page", "", "", <<>>, <<>>, TRUE, "Ok", NoModal,
                           IF renderPending THEN last.defers ELSE 0,
                           renderPending, Some(out.page),
                           IF last.op = "build_page" THEN last.page ELSE None)
    /\ evAcks' = IF renderPending THEN evAcks + RenderAcks(defer) ELSE 0
    /\ renderPending' = FALSE
    /\ UNCHANGED <<data, msg_owner, focus, streak, regVars, listVars>>

\* The call is over and the dispatcher waits for the next event.
Return ==
    /\ ~Waiting
    /\ ~renderPending
    /\ last' = Idle("idle")
    /\ evAcks' = 0
    /\ UNCHANGED <<data, map, defer, msg_owner, focus, renderPending, streak, regVars, listVars>>

Next == HandleComponent \/ HandleModal \/ BuildPage \/ Return

Spec == Init /\ [][Next]_vars

RegInit ==
    /\ RegStart
    /\ ListStart
    /\ focus = "clicks"
    /\ map = InitMap("Osu")
    /\ data = EmptyData(DefaultVersion("Osu"))
    /\ defer = TRUE
    /\ msg_owner = "u1"
    /\ last = Idle("new")
    /\ renderPending = FALSE
    /\ evAcks = 0
    /\ streak = 0

RegNext == Start \/ Deliver \/ Begin \/ RunHandler \/ Render \/ End \/ Expire \/ Drop

\* The registry with its two messages.
SpecReg == RegInit /\ [][RegNext]_vars

\* ------------------------------------------------------------------ paginated list

\* A SimulateComponents instance nothing is delivered to.
SimStart ==
    /\ focus = "clicks"
    /\ map = InitMap("Osu")
    /\ data = EmptyData(DefaultVersion("Osu"))
    /\ defer = TRUE
    /\ msg_owner = "u1"
    /\ last = Idle("new")
    /\ renderPending = FALSE
    /\ evAcks = 0
    /\ streak = 0

\* next_page calls counted while nothing else was called.
MaxTrail == 3

NextTrail(n) == IF n < 0 THEN n ELSE Min(n + 1, MaxTrail)

OffTrail == 0 - 1

NextPage ==
    /\ pages' = next_page(pages)
    /\ paged' = Paged("next_page", 0, curr_page(pages), 0, 0, "Ok")
    /\ trail' = NextTrail(trail)
    /\ UNCHANGED <<simVars, regVars, cacheVars, matchVars, recentVars, topifVars>>

PrevPage ==
    /\ pages' = prev_page(pages)
    /\ paged' = Paged("prev_page", 0, curr_page(pages), 0, 0, "Ok")
    /\ trail' = OffTrail
    /\ UNCHANGED <<simVars, regVars, cacheVars, matchVars, recentVars, topifVars>>

Jump ==
    /\ \E k \in JumpTargets(pages) :
          /\ pages' = jump(pages, k)
          /\ paged' = Paged("jump", k, curr_page(pages), 0, 0, "Ok")
    /\ trail' = OffTrail
    /\ UNCHANGED <<simVars, regVars, cacheVars, matchVars, recentVars, topifVars>>

FirstPage ==
    /\ pages' = first_page(pages)
    /\ paged' = Paged("first_page", 0, curr_page(pages), 0, 0, "Ok")
    /\ trail' = OffTrail
    /\ UNCHANGED <<simVars, regVars, cacheVars, matchVars, recentVars, topifVars>>

FinalPage ==
    /\ pages' = final_page(pages)
    /\ paged' = Paged("final_page", 0, curr_page(pages), 0, 0, "Ok")
    /\ trail' = OffTrail
    /\ UNCHANGED <<simVars, regVars, cacheVars, matchVars, recentVars, topifVars>>

\* The list renders its page; its entries are those the pager was made for.
ShowPage ==
    /\ LET out == TopIf_build_page(pages, pages.total)
       IN  paged' = Paged("build_page", 0, curr_page(pages), out.from, out.to, out.result)
    /\ UNCHANGED <<pages, trail, simVars, regVars, cacheVars, matchVars, recentVars, topifVars>>

PagerInit ==
    /\ \E amount \in 0 .. MaxEntries, per_page \in 1 .. MaxPerPage : PagerStart(per_page, amount)
    /\ CacheStart([id \in MapIds |-> Some(Beatmap(id, FALSE))])
    /\ MatchStart
    /\ RecentStart
    /\ TopIfStart
    /\ SimStart
    /\ RegStart

PagerNext == NextPage \/ PrevPage \/ Jump \/ FirstPage \/ FinalPage \/ ShowPage

\* A paginated list of any length and page size under its pagination calls.
SpecPager == PagerInit /\ [][PagerNext]_vars

\* ------------------------------------------------------------------ TopIfPagination

\* A button under the list is clicked by some user.
TopIfComponent ==
    /\ \E user \in Users, custom_id \in PaginationIds \cup {"sim_bogus"} :
          LET out == TopIf_handle_component(custom_id, user, msg_owner, pages)
          IN  /\ pages' = out.pages
              /\ tcall' = TopIfCall("handle_component", user, <<custom_id>>, pages, out.result,
                                    0, 0, <<>>)
    /\ UNCHANGED <<topif_entries, paged, trail, simVars, regVars, cacheVars, matchVars, recentVars>>

\* The page number form is submitted by some user.
TopIfModal ==
    /\ \E user \in Users, text \in PageTexts :
          LET out == TopIf_handle_modal(text, user, msg_owner, pages)
          IN  /\ pages' = out.pages
              /\ tcall' = TopIfCall("handle_modal", user, text, pages, out.result, 0, 0, <<>>)
    /\ UNCHANGED <<topif_entries, paged, trail, simVars, regVars, cacheVars, matchVars, recentVars>>

\* The list renders its page.
TopIfBuildPage ==
    /\ LET out == TopIf_build_page(pages, Len(topif_entries))
       IN  /\ pages' = out.pages
           /\ tcall' = TopIfCall("build_page", "", <<>>, pages, out.result, out.from, out.to,
                                 IF out.result = "Ok" THEN SubSeq(topif_entries, out.from + 1, out.to)
                                 ELSE <<>>)
    /\ UNCHANGED <<topif_entries, paged, trail, simVars, regVars, cacheVars, matchVars, recentVars>>

\* The list renders its buttons.
TopIfBuildComponents ==
    /\ LET out == TopIf_build_components(pages)
       IN  /\ pages' = out.pages
           /\ tcall' = TopIfCall("build_components", "", <<>>, pages, "Ok", 0, 0, <<>>)
    /\ UNCHANGED <<topif_entries, paged, trail, simVars, regVars, cacheVars, matchVars, recentVars>>

TopIfInit ==
    /\ \E n \in 0 .. MaxEntries :
          /\ topif_entries = TopIfEntries(n)
          /\ pages = Pages_new(TopIfPerPage, n)
          /\ tcall = TopIfCall("new", "", <<>>, Pages_new(TopIfPerPage, n), "Ok", 0, 0, <<>>)
    /\ paged = Paged("new", 0, 1, 0, 0, "Ok")
    /\ trail = 0
    /\ CacheStart([id \in MapIds |-> Some(Beatmap(id, FALSE))])
    /\ MatchStart
    /\ RecentStart
    /\ SimStart
    /\ RegStart

TopIfNext == TopIfComponent \/ TopIfModal \/ TopIfBuildPage \/ TopIfBuildComponents

\* A TopIfPagination of any length under events of its owner and of others.
SpecTopIf == TopIfInit /\ [][TopIfNext]_vars

\* ------------------------------------------------------------------ process_scores

Running == probe.op # "done" /\ scored < MaxScores

\* The loop takes a score whose map was not fetched and goes on.
SkipScore ==
    /\ Running
    /\ \E score \in Scores :
          /\ maps[score.map_id] = None
          /\ probe' = Probe("skip", score, NoGet)
    /\ scored' = scored + 1
    /\ UNCHANGED <<cache, maps, calcs, guards, answers, simVars, regVars, pagerVars, matchVars, recentVars, topifVars>>

\* The loop takes a score and asks the cache for the attributes of its map.
GetAttributes ==
    /\ Running
    /\ \E score \in Scores :
          /\ maps[score.map_id] # None
          /\ LET out == get(cache, Unwrap(maps[score.map_id]), score)
                 k == KeyOf(score)
             IN  /\ cache' = out.entries
                 /\ probe' = Probe("get", score, out)
                 /\ calcs' = [calcs EXCEPT ![k] = @ + (IF out.calculated THEN 1 ELSE 0)]
                 /\ guards' = [guards EXCEPT ![score.map_id] = @ + (IF out.guarded THEN 1 ELSE 0)]
                 /\ answers' = [answers EXCEPT ![k] = Append(@, out.result)]
    /\ scored' = scored + 1
    /\ UNCHANGED <<maps, simVars, regVars, pagerVars, matchVars, recentVars, topifVars>>

\* The scores are through; the cache goes with the run.
FinishRun ==
    /\ probe.op # "done"
    /\ probe' = Probe("done", NoScore, NoGet)
    /\ UNCHANGED <<cache, maps, calcs, guards, answers, scored, simVars, regVars, pagerVars, matchVars, recentVars, topifVars>>

CacheInit ==
    /\ \E fetched \in FetchedMaps : CacheStart(fetched)
    /\ PagerStart(TopIfPerPage, MaxEntries)
    /\ MatchStart
    /\ RecentStart
    /\ TopIfStart
    /\ SimStart
    /\ RegStart

CacheNext == SkipScore \/ GetAttributes \/ FinishRun

\* One run of process_scores over its scores.
SpecCache == CacheInit /\ [][CacheNext]_vars

\* ------------------------------------------------------------------ matchlive commands

\* The channels a command can be sent in: the channel and its threads.
Open == {"channel"} \cup threads

\* matchlive track, by prefix (never a thread) or slash command.
MatchLive ==
    /\ mcall = NoMatchCall
    /\ \E channel \in Open, match_url \in MatchTexts, thread \in BOOLEAN :
        \E env \in TrackEnvs(thread) :
          /\ thread => FreeThreads(threads) # {}
          /\ LET out == matchlive(tracked, threads, channel, match_url, thread, env)
             IN  /\ tracked' = out.tracked
                 /\ threads' = out.threads
                 /\ mcall' = [MatchCall("matchlive", channel, Some(match_url), thread,
                                        tracked[channel], out) EXCEPT !.env = env]
    /\ UNCHANGED <<simVars, regVars, pagerVars, cacheVars, recentVars, topifVars>>

\* matchliveremove by prefix command, with or without an argument.
PrefixMatchLiveRemove ==
    /\ mcall = NoMatchCall
    /\ \E channel \in Open, arg \in {None} \cup {Some(t) : t \in MatchTexts} :
          LET out == prefix_matchliveremove(tracked, threads, channel, arg)
          IN  /\ tracked' = out.tracked
              /\ mcall' = MatchCall("matchliveremove", channel, arg, FALSE,
                                    tracked[channel], out)
    /\ UNCHANGED <<threads, simVars, regVars, pagerVars, cacheVars, recentVars, topifVars>>

\* matchlive untrack by slash command: the match url is always given.
SlashMatchLiveRemove ==
    /\ mcall = NoMatchCall
    /\ \E channel \in Open, match_url \in MatchTexts :
          LET out == matchliveremove(tracked, threads, channel, Some(match_url))
          IN  /\ tracked' = out.tracked
              /\ mcall' = MatchCall("untrack", channel, Some(match_url), FALSE,
                                    tracked[channel], out)
    /\ UNCHANGED <<threads, simVars, regVars, pagerVars, cacheVars, recentVars, topifVars>>

\* The command has answered; the next one can be sent.
MatchReturn ==
    /\ mcall # NoMatchCall
    /\ mcall' = NoMatchCall
    /\ UNCHANGED <<tracked, threads, simVars, regVars, pagerVars, cacheVars, recentVars, topifVars>>

MatchInit ==
    /\ MatchStart
    /\ RecentStart
    /\ TopIfStart
    /\ PagerStart(TopIfPerPage, MaxEntries)
    /\ CacheStart([id \in MapIds |-> Some(Beatmap(id, FALSE))])
    /\ SimStart
    /\ RegStart

MatchNext == MatchLive \/ PrefixMatchLiveRemove \/ SlashMatchLiveRemove \/ MatchReturn

\* A channel and its threads under the matchlive commands.
SpecMatch == MatchInit /\ [][MatchNext]_vars

\* ------------------------------------------------------------------ recent list commands

\* list, up to the request for the scores: refused for fails graded as passes.
list_request(cmd, argv, args) ==
    LET fails == include_fails(Grade_of(args), args.passes)
    IN  IF fails = None
        THEN RecentCall("done", cmd, argv, Some(args), FALSE, <<>>, <<>>, {}, ":clown:")
        ELSE RecentCall("fetching", cmd, argv, Some(args), Unwrap(fails), <<>>, <<>>, {}, "")

\* <recentlist and its mode variants.
PrefixRecentList ==
    /\ rl = NoRecentCall
    /\ \E argv \in ArgLists :
          rl' = IF RecentList_args(argv) = None
                THEN RecentCall("done", "recentlist", argv, None, FALSE, <<>>, <<>>, {}, "error")
                ELSE list_request("recentlist", argv, Unwrap(RecentList_args(argv)))
    /\ UNCHANGED <<simVars, regVars, pagerVars, cacheVars, matchVars, topifVars>>

\* <recentlistpass and its mode variants: passes is set after the parse.
PrefixRecentListPass ==
    /\ rl = NoRecentCall
    /\ \E argv \in ArgLists :
          rl' = IF RecentList_args(argv) = None
                THEN RecentCall("done", "recentlistpass", argv, None, FALSE, <<>>, <<>>, {}, "error")
                ELSE list_request("recentlistpass", argv,
                                  [Unwrap(RecentList_args(argv)) EXCEPT !.passes = Some(TRUE)])
    /\ UNCHANGED <<simVars, regVars, pagerVars, cacheVars, matchVars, topifVars>>

\* /recent list: grade, passes and sort are options of their own.
SlashRecentList ==
    /\ rl = NoRecentCall
    /\ \E grade \in {None} \cup {Some(g) : g \in GradeOptions},
          passes \in {None, Some(TRUE), Some(FALSE)},
          sort \in {None, Some("Bpm")} :
          rl' = list_request("slash", <<>>,
                             [RecentList(None, None, grade, passes) EXCEPT !.sort = sort])
    /\ UNCHANGED <<simVars, regVars, pagerVars, cacheVars, matchVars, topifVars>>

\* list, once the scores are there: none is an error, else process_scores.
ScoresFetched ==
    /\ rl.step = "fetching"
    /\ \E scores \in ScoreLists, available \in {MapIds, MapIds \ {MaxMaps}} :
          rl' = IF scores = <<>>
                THEN [rl EXCEPT !.step = "done", !.reply = "No recent plays found"]
                ELSE LET out == process_scores(scores, Unwrap(rl.args), available)
                     IN  IF out.missing_map
                         THEN [rl EXCEPT !.step = "done", !.scores = scores, !.maps = out.maps,
                                         !.reply = "panic"]
                         ELSE [rl EXCEPT !.step = "done", !.scores = scores,
                                         !.entries = out.entries, !.maps = out.maps,
                                         !.reply = "list"]
    /\ UNCHANGED <<simVars, regVars, pagerVars, cacheVars, matchVars, topifVars>>

\* list, when the request for the scores fails.
ScoresFailed ==
    /\ rl.step = "fetching"
    /\ rl' = [rl EXCEPT !.step = "done", !.reply = "error"]
    /\ UNCHANGED <<simVars, regVars, pagerVars, cacheVars, matchVars, topifVars>>

\* The command has answered; the next one can be sent.
RecentReturn ==
    /\ rl.step = "done"
    /\ rl' = NoRecentCall
    /\ UNCHANGED <<simVars, regVars, pagerVars, cacheVars, matchVars, topifVars>>

RecentInit ==
    /\ RecentStart
    /\ TopIfStart
    /\ MatchStart
    /\ PagerStart(TopIfPerPage, MaxEntries)
    /\ CacheStart([id \in MapIds |-> Some(Beatmap(id, FALSE))])
    /\ SimStart
    /\ RegStart

RecentNext ==
    \/ PrefixRecentList
    \/ PrefixRecentListPass
    \/ SlashRecentList
    \/ ScoresFetched
    \/ ScoresFailed
    \/ RecentReturn

\* The recent list commands, one after the other.
SpecRecent == RecentInit /\ [][RecentNext]_vars

\* ---- the recent list commands up to the request for the scores, which
\* the osu!api does not answer

RequestNext ==
    \/ PrefixRecentList
    \/ PrefixRecentListPass
    \/ SlashRecentList
    \/ ScoresFailed
    \/ RecentReturn

SpecRequest == RecentInit /\ [][RequestNext]_vars

\* ---- the recent list of the slash command alone

SlashNext ==
    \/ SlashRecentList
    \/ ScoresFetched
    \/ ScoresFailed
    \/ RecentReturn

SpecSlash == RecentInit /\ [][SlashNext]_vars

\* ---- RecentList::args over what can be typed

MaxTyped == 4

\* Arguments as in ArgTokens, and a grade and a fail value that do not
\* parse, and an argument that starts with '='.
TypedTokens ==
    ArgTokens \cup {<<"g", "=", "q">>, <<"f", "=", "x">>, <<"=", "p">>}

TypedLists == UNION {[1 .. n -> TypedTokens] : n \in 0 .. MaxTyped}

\* Some arguments were typed after <recentlist.
ArgsInit ==
    /\ \E argv \in TypedLists :
          rl = RecentCall("typed", "recentlist", argv, None, FALSE, <<>>, <<>>, {}, "")
    /\ TopIfStart
    /\ MatchStart
    /\ PagerStart(TopIfPerPage, MaxEntries)
    /\ CacheStart([id \in MapIds |-> Some(Beatmap(id, FALSE))])
    /\ SimStart
    /\ RegStart

\* RecentList::args on the arguments typed.
ArgsParsed ==
    /\ rl.step = "typed"
    /\ rl' = [rl EXCEPT !.step = "parsed", !.args = RecentList_args(rl.argv),
                        !.reply = IF RecentList_args(rl.argv) = None THEN "error" ELSE ""]
    /\ UNCHANGED <<simVars, regVars, pagerVars, cacheVars, matchVars, topifVars>>

ArgsNext == ArgsParsed

SpecArgs == ArgsInit /\ [][ArgsNext]_vars

\* ---- the recent list with the unique option

\* /recent list with unique set and no grade, passes, query or mods.
SlashRecentListUnique ==
    /\ rl = NoRecentCall
    /\ \E unique \in UniqueOptions :
          rl' = list_request("slash", <<>>,
                             [RecentList(None, None, None, None) EXCEPT !.unique = Some(unique)])
    /\ UNCHANGED <<simVars, regVars, pagerVars, cacheVars, matchVars, topifVars>>

\* list, when the scores have come: process_scores makes the entries.
UniqueScoresFetched ==
    /\ rl.step = "fetching"
    /\ \E scores \in UniqueScoreLists, available \in {MapIds, MapIds \ {MaxMaps}} :
          \E out \in process_scores_unique(scores, Unwrap(rl.args), available) :
              rl' = [rl EXCEPT !.step = "done", !.scores = scores, !.entries = out.entries,
                               !.maps = out.maps, !.reply = "list"]
    /\ UNCHANGED <<simVars, regVars, pagerVars, cacheVars, matchVars, topifVars>>

UniqueNext ==
    \/ SlashRecentListUnique
    \/ UniqueScoresFetched
    \/ RecentReturn

SpecUnique == RecentInit /\ [][UniqueNext]_vars

\* ------------------------------------------------------------------ claims

OwnerCall(c) == c.user = msg_owner

OtherUserCall(c) == c.user \in Users /\ c.user # msg_owner

\* C1: a component event of a user who is not the owner returns Ignore, leaves
\* data, map, defer and msg_owner as they were and makes no defer() call.
C1_NonOwnerComponentIgnored ==
    [][(Waiting /\ last'.op = "component" /\ OtherUserCall(last'))
         => /\ last'.result = "Ignore"
            /\ last'.defers = 0
            /\ data' = data /\ map' = map /\ defer' = defer /\ msg_owner' = msg_owner]_vars

C1_Witness ==
    /\ last.op = "component" /\ OtherUserCall(last)
    /\ last.custom_id = "sim_lazer" /\ last.result = "Ignore"
    /\ ~data.set_on_lazer

\* C2: a modal submission of a user who is not the owner returns Ok(()) and
\* leaves every stored value and the defer flag as they were.
C2_NonOwnerModalNoOp ==
    [][(Waiting /\ last'.op = "modal" /\ OtherUserCall(last'))
         => /\ last'.result = "Ok"
            /\ data' = data /\ map' = map /\ defer' = defer /\ msg_owner' = msg_owner]_vars

C2_Witness ==
    /\ last.op = "modal" /\ OtherUserCall(last)
    /\ last.custom_id = "sim_combo" /\ last.rows[1].value = Some(<<"1", "5", "0">>)
    /\ last.result = "Ok"
    /\ data.combo # Some(150)

\* The stored value a modal input is written to.
StoredValue(d, input) ==
    CASE input = "sim_mods" -> d.mods
      [] input = "sim_acc" -> d.acc
      [] input \in IntModalIds -> d[IntField(input)]
      [] input = "sim_ar" -> d.attrs.ar
      [] input = "sim_cs" -> d.attrs.cs
      [] input = "sim_hp" -> d.attrs.hp
      [] input = "sim_od" -> d.attrs.od
      [] input = "sim_clock_rate" -> d.clock_rate
      [] input = "sim_bpm" -> d.bpm

StoredInputs == {"sim_mods", "sim_acc", "sim_ar", "sim_cs", "sim_hp", "sim_od",
                 "sim_clock_rate", "sim_bpm"} \cup IntModalIds

Unparseable(input, text) ==
    CASE input = "sim_mods" -> ~ParseMods(TrimEnd(TrimStart(text, "+"), "!")).ok
      [] input \in IntModalIds -> ~ParseUInt(text).ok
      [] OTHER -> ~ParseFloat(text).ok

\* C3: for every field of every simulate modal the owner submits, a value
\* that is not empty and does not parse leaves the stored value of that field
\* as it was.
C3_UnparseableKeepsValue ==
    [][(Waiting /\ last'.op = "modal" /\ OwnerCall(last'))
         => \A i \in 1..Len(last'.rows) :
               LET row == last'.rows[i]
               IN  (/\ row.custom_id \in StoredInputs
                    /\ NonEmpty(row.value) # None
                    /\ Unparseable(row.custom_id, Unwrap(row.value)))
                     => StoredValue(data', row.custom_id) = StoredValue(data, row.custom_id)]_vars

NumericField(id) == IF id = "sim_acc" THEN "acc" ELSE IntField(id)

ParseNumeric(id, text) == IF id = "sim_acc" THEN ParseFloat(text) ELSE ParseUInt(text)

\* The owner submitted a single-field numeric modal.
NumericSubmission(c) == c.op = "modal" /\ OwnerCall(c) /\ c.custom_id \in NumericModalIds

\* C4 as stated: a parseable value v makes the stored field Some(v), an empty
\* or absent value makes it None, no other stored field changes.
C4_StoresParsedValue ==
    [][(Waiting /\ NumericSubmission(last'))
         => LET id == last'.custom_id
                input == NonEmpty(last'.rows[1].value)
            IN  /\ input = None => data' = [data EXCEPT ![NumericField(id)] = None]
                /\ (input # None /\ ParseNumeric(id, Unwrap(input)).ok)
                     => data' = [data EXCEPT ![NumericField(id)] =
                                    Some(ParseNumeric(id, Unwrap(input)).value)]]_vars

\* C4 as amended: the same, except that sim_acc stores the value clamped to
\* [0, 100]; "150" gives 150 (100 for sim_acc); and after owner-submits-150,
\* owner-submits-empty, other-user-submits-anything the field is unset.
C4_StoresParsedValueClamped ==
    /\ [][(Waiting /\ NumericSubmission(last'))
            => LET id == last'.custom_id
                   input == NonEmpty(last'.rows[1].value)
                   v == ParseNumeric(id, Unwrap(input)).value
               IN  /\ input = None => data' = [data EXCEPT ![NumericField(id)] = None]
                   /\ (input # None /\ ParseNumeric(id, Unwrap(input)).ok)
                        => data' = [data EXCEPT ![NumericField(id)] =
                                       Some(IF id = "sim_acc" THEN ClampAcc(v) ELSE v)]
                   /\ input = Some(<<"1", "5", "0">>)
                        => data'[NumericField(id)] = Some(IF id = "sim_acc" THEN 1000 ELSE 150)]_vars
    /\ []((streak = 3 /\ focus \in NumericModalIds) => data[NumericField(focus)] = None)

C4_Witness ==
    /\ streak = 3 /\ focus = "sim_combo"
    /\ last.op = "modal" /\ last.rows[1].value = Some(<<"+", "7">>)
    /\ data.combo = None /\ data.n_geki = Some(3)

\* C5 as stated: the second of two build_page calls in a row returns the
\* BuildPage the first returned: same embed, content and defer flag.
C5_BuildPageTwiceIdentical ==
    (last.op = "build_page" /\ last.prevPage # None) => last.page = last.prevPage

\* C5 as amended: the second call returns the same embed and content, and its
\* defer flag is true whatever the first call reported.
C5_BuildPageTwiceSameEmbed ==
    (last.op = "build_page" /\ last.prevPage # None)
      => /\ Unwrap(last.page).embed = Unwrap(last.prevPage).embed
         /\ Unwrap(last.page).content = Unwrap(last.prevPage).content
         /\ Unwrap(last.page).defer

C5_Witness ==
    /\ last.op = "build_page" /\ last.prevPage # None
    /\ ~Unwrap(last.prevPage).defer
    /\ Unwrap(last.page).embed.map.ar # InitMap(map.mode).ar

\* An owner component event is settled once its handler returned something
\* other than BuildPage, or once the render of its BuildPage was built.
SettledOwnerEvent ==
    \/ last.op = "component" /\ OwnerCall(last) /\ last.result # "BuildPage"
    \/ last.op = "build_page" /\ last.forEvent

\* C6 as stated: every owner component event is acknowledged exactly once.
C6_EveryEventAckedOnce == SettledOwnerEvent => evAcks = 1

\* C6 as amended: an owner component event that results in CreateModal or
\* BuildPage is acknowledged exactly once (the handler deferred and the
\* render reports defer = true, or it did not and the render reports
\* defer = false); one that results in Ignore or Err is not acknowledged.
C6_AnsweredEventsAckedOnce ==
    /\ (last.op = "component" /\ OwnerCall(last) /\ last.result = "CreateModal")
         => evAcks = 1 /\ last.defers = 0
    /\ (last.op = "build_page" /\ last.forEvent)
         => /\ evAcks = 1
            /\ \/ last.defers = 1 /\ Unwrap(last.page).defer
               \/ last.defers = 0 /\ ~Unwrap(last.page).defer
    /\ (last.op = "component" /\ OwnerCall(last) /\ last.result \in {"Ignore", "Err"})
         => evAcks = 0

C6_Witness ==
    /\ last.op = "build_page" /\ last.forEvent
    /\ last.defers = 1 /\ Unwrap(last.page).defer /\ evAcks = 1
    /\ data.set_on_lazer

\* C7: every owner modal submission that handle_modal answers with Ok(()) was
\* acknowledged by a modal.defer() call before handle_modal returned.
C7_OwnerModalDeferred ==
    (last.op = "modal" /\ OwnerCall(last) /\ last.result = "Ok") => last.defers = 1

\* C8 as stated: defer is true at construction; a handler that acknowledged
\* the callback itself has reset it to false when it returns BuildPage; a
\* handler that did not acknowledge leaves it alone.
C8_DeferLifecycle ==
    /\ [](last.op = "new" => defer)
    /\ []((last.op = "component" /\ last.result = "BuildPage" /\ last.defers = 1) => ~defer)
    /\ [][(Waiting /\ last'.op = "component" /\ last'.defers = 0) => defer' = defer]_vars

\* C8 as amended: defer is true at construction; build_page reports the value
\* it finds and leaves true; the handlers that return BuildPage without
\* acknowledging (sim_lazer, sim_stable) reset it to false; every other
\* component result, the version menu's BuildPage included, leaves it alone.
C8_DeferLifecycleOfCode ==
    /\ [](last.op = "new" => defer)
    /\ [][last'.op = "build_page" /\ last' # last
            => defer' /\ Unwrap(last'.page).defer = defer]_vars
    /\ [][(Waiting /\ last'.op = "component")
            => IF last'.result = "BuildPage" /\ last'.defers = 0
               THEN ~defer' /\ last'.custom_id \in {"sim_lazer", "sim_stable"}
               ELSE defer' = defer]_vars

C8_Witness ==
    /\ last.op = "component" /\ last.result = "BuildPage" /\ last.defers = 1
    /\ last.custom_id = "sim_osu_version" /\ defer

\* C9: at most one handler or render is in flight per message at any time,
\* also when callbacks of the same message overlap, and a step changes the
\* state of one instance only, which has an invocation in flight.
C9_OneInFlightPerMessage ==
    /\ [](\A m \in Messages : Cardinality(inflight[m]) <= 1)
    /\ [][\A m \in Messages :
            reg'[m] # reg[m]
              => /\ inflight[m] # {}
                 /\ \A o \in Messages \ {m} : reg'[o] = reg[o]]_vars

\* Handlers of both messages are in flight while a second callback of m1
\* waits, and m1's handler has changed its instance.
C9_Witness ==
    /\ \A m \in Messages : inflight[m] # {}
    /\ queue["m1"] # <<>>
    /\ \E inv \in inflight["m1"] : inv.pc = "render"
    /\ reg["m1"].data.set_on_lazer

KnownComponentIds == ModalButtons \cup VersionMenus \cup {"sim_lazer", "sim_stable"}

KnownModalIds == IntModalIds \cup {"sim_mods", "sim_acc", "sim_attrs", "sim_speed_adjustments"}

\* C10: an owner event with an unknown identifier is ignored: handle_component
\* returns Ignore, handle_modal returns Ok(()), and the stored state is as
\* it was.
C10_UnknownIdIgnored ==
    /\ [][(Waiting /\ last'.op = "component" /\ OwnerCall(last')
             /\ last'.custom_id \notin KnownComponentIds)
            => /\ last'.result = "Ignore"
               /\ data' = data /\ map' = map /\ defer' = defer]_vars
    /\ [][(Waiting /\ last'.op = "modal" /\ OwnerCall(last')
             /\ last'.custom_id \notin KnownModalIds)
            => /\ last'.result = "Ok"
               /\ data' = data /\ map' = map /\ defer' = defer]_vars

C10_Witness ==
    /\ last.op = "modal" /\ OwnerCall(last)
    /\ last.custom_id = "sim_bogus" /\ last.result = "Ok" /\ last.defers = 1
    /\ data.combo = Some(3)

\* C11: after any sequence of next_page, prev_page and jump calls on a Pager
\* over n entries with page size p >= 1, 0 <= index < n when n > 0 and
\* index = 0 when n = 0.
C11_IndexWithinEntries ==
    /\ pages.total > 0 => (0 <= pages.index /\ pages.index < pages.total)
    /\ pages.total = 0 => pages.index = 0

\* next_page was called on the last, partial page of a list of several pages.
C11_Witness ==
    /\ paged.op = "next_page"
    /\ paged.before = last_page(pages)
    /\ paged.before > 1
    /\ pages.total % pages.per_page # 0

\* C12: jump(k) followed by curr_page() gives clamp(k, 1, last_page()), for
\* every k, k <= 0 and k > last_page() included.
C12_JumpClamps ==
    paged.op = "jump" => curr_page(pages) = Clamp(paged.k, 1, last_page(pages))

\* A jump from the first page to a page number behind the last page.
C12_Witness ==
    /\ paged.op = "jump"
    /\ paged.k > last_page(pages)
    /\ paged.before = 1
    /\ last_page(pages) > 1

\* C13: next_page on the last page and prev_page on the first page leave
\* curr_page as it is; with 12 entries and 5 a page, curr_page is 1 and
\* last_page 3 at first, curr_page is 3 after two next_page calls and still 3
\* after a third.
C13_Saturates ==
    /\ (paged.op = "next_page" /\ paged.before = last_page(pages))
          => curr_page(pages) = paged.before
    /\ (paged.op = "prev_page" /\ paged.before = 1) => curr_page(pages) = 1
    /\ (pages.total = 12 /\ pages.per_page = 5) =>
          /\ trail = 0 => (curr_page(pages) = 1 /\ last_page(pages) = 3)
          /\ trail = 2 => curr_page(pages) = 3
          /\ trail = 3 => curr_page(pages) = 3

\* The third next_page call in a row on the list of 12 entries, 5 a page.
C13_Witness ==
    /\ pages.total = 12
    /\ pages.per_page = 5
    /\ trail = 3
    /\ paged.op = "next_page"
    /\ paged.before = 3

\* C14: after any sequence of pagination calls, index is a multiple of
\* per_page and curr_page = index / per_page + 1 lies in 1..last_page.
C14_IndexOnPageStart ==
    /\ pages.index % pages.per_page = 0
    /\ curr_page(pages) = pages.index \div pages.per_page + 1
    /\ 1 <= curr_page(pages)
    /\ curr_page(pages) <= last_page(pages)

\* prev_page was called on the last, partial page and went one page back.
C14_Witness ==
    /\ paged.op = "prev_page"
    /\ paged.before = last_page(pages)
    /\ curr_page(pages) = paged.before - 1
    /\ pages.per_page > 1
    /\ pages.total % pages.per_page # 0

\* The map of a key was fetched and passes the suspicion guard.
Calculable(k) == maps[k.map_id] # None /\ ~Unwrap(maps[k.map_id]).suspicious

\* The map of a key was fetched and trips the suspicion guard.
Suspicious(id) == maps[id] # None /\ Unwrap(maps[id]).suspicious

EntryKey(e) == Key(e.map_id, e.mods, e.lazer)

CachedKeys(entries) == {EntryKey(entries[i]) : i \in 1 .. Len(entries)}

\* C15: of the get calls of one cache with the same key (map id, mods, lazer
\* flag) on a map that is not suspicious, only the first calculates; every
\* later one is a hit and returns the attributes the first returned.
C15_SameKeyCalculatedOnce ==
    /\ \A k \in Keys :
          (Calculable(k) /\ Len(answers[k]) >= 2) =>
              /\ calcs[k] = 1
              /\ answers[k][1] # None
              /\ \A i \in 1 .. Len(answers[k]) : answers[k][i] = answers[k][1]
    /\ (probe.op = "get" /\ Calculable(KeyOf(probe.score))
           /\ Len(answers[KeyOf(probe.score)]) >= 2)
          => (probe.hit /\ ~probe.calculated)

\* A key is asked for a second time after a key differing only in the lazer
\* flag was cached in between.
C15_Witness ==
    /\ probe.op = "get"
    /\ probe.hit
    /\ Len(answers[KeyOf(probe.score)]) = 2
    /\ Len(cache) >= 2
    /\ \E k \in CachedKeys(cache) :
          /\ k.map_id = probe.score.map_id
          /\ k.mods = probe.score.mods
          /\ k.lazer # probe.score.set_on_lazer

\* C16: get on a map that trips the suspicion guard returns None, leaves the
\* cache as it is and evaluates the guard, on every call, whatever was
\* rejected before; no entry is ever stored for such a map.
C16_SuspiciousNeverCached ==
    [][/\ (probe'.op = "get" /\ scored' = scored + 1 /\ Suspicious(probe'.score.map_id)) =>
             /\ probe'.result = None
             /\ ~probe'.hit
             /\ cache' = cache
             /\ guards'[probe'.score.map_id] = guards[probe'.score.map_id] + 1
       /\ \A i \in 1 .. Len(cache') : ~Suspicious(cache'[i].map_id)]_vars

\* A suspicious map is probed again with other mods or another lazer flag
\* after its first rejection, while the cache holds another map's entry.
C16_Witness ==
    /\ probe.op = "get"
    /\ Suspicious(probe.score.map_id)
    /\ probe.result = None
    /\ guards[probe.score.map_id] >= 2
    /\ Len(answers[KeyOf(probe.score)]) = 1
    /\ Len(cache) >= 1

\* C17: the cache never holds two entries with the same key (map id, mods,
\* lazer flag).
C17_OneEntryPerKey ==
    \A i, j \in 1 .. Len(cache) : EntryKey(cache[i]) = EntryKey(cache[j]) => i = j

\* A cached key was asked for again while the cache held several entries.
C17_Witness ==
    /\ probe.op = "get"
    /\ probe.hit
    /\ Len(cache) >= 2
    /\ scored = MaxScores

\* C18: no get call removes or overwrites an entry: the entries only grow at
\* the end, and a key once cached is a hit with its cached attributes in every
\* later get of the run.
C18_EntriesNeverExpire ==
    [][/\ Len(cache') >= Len(cache)
       /\ \A i \in 1 .. Len(cache) : cache'[i] = cache[i]
       /\ (probe'.op = "get" /\ scored' = scored + 1) =>
             \A i \in 1 .. Len(cache) :
                 EntryKey(cache[i]) = KeyOf(probe'.score) =>
                     (probe'.hit /\ probe'.result = Some(cache[i].attrs))]_vars

\* The oldest of three entries is hit.
C18_Witness ==
    /\ probe.op = "get"
    /\ probe.hit
    /\ Len(cache) >= 3
    /\ EntryKey(cache[1]) = KeyOf(probe.score)

StageRank(st) == CASE st = "Initial" -> 0 [] st = "Rendered" -> 1 [] st = "Expired" -> 2

InvocationIds(invs) == {inv.id : inv \in invs}

\* C19: a message only moves forward through Initial (just constructed, the
\* defer flag says must defer), Rendered and Expired; once the registry has
\* dropped the instance the message stays Expired, no callback is routed to
\* the instance any more, and nothing changes it but an invocation that was
\* in flight when it was dropped.
C19_LifecycleForwardOnly ==
    [][\A m \in Messages :
          /\ StageRank(stage'[m]) >= StageRank(stage[m])
          /\ stage[m] = "Initial" => (reg[m].defer /\ queue[m] = <<>> /\ inflight[m] = {})
          /\ stage[m] = "Expired" =>
                /\ stage'[m] = "Expired"
                /\ InvocationIds(inflight'[m]) \subseteq InvocationIds(inflight[m])
                /\ inflight[m] = {} => reg'[m] = reg[m]]_vars

\* A callback delivered to a dropped message has been discarded: the message
\* was rendered and changed by its owner before, and nothing is left to run.
C19_Witness ==
    \E m \in Messages :
       /\ stage[m] = "Expired"
       /\ reg[m].data.set_on_lazer
       /\ delivered >= 2
       /\ queue[m] = <<>>
       /\ inflight[m] = {}

\* The mods of a sim_mods submission parse but do not exist in the map's mode
\* or exclude each other.
BadMods(c, mode) ==
    /\ c.custom_id = "sim_mods"
    /\ NonEmpty(c.rows[1].value) # None
    /\ LET res == ParseMods(TrimEnd(TrimStart(Unwrap(c.rows[1].value), "+"), "!"))
       IN  /\ res.ok
           /\ \/ TryWithMode(res.value, mode) = None
              \/ ~IsValid(Unwrap(TryWithMode(res.value, mode)))

\* Some field of a submission holds a text that does not parse.
UnparseableField(c) ==
    \E i \in 1 .. Len(c.rows) :
       /\ c.rows[i].custom_id \in StoredInputs
       /\ NonEmpty(c.rows[i].value) # None
       /\ Unparseable(c.rows[i].custom_id, Unwrap(c.rows[i].value))

\* C20: for a wrong user or an unknown custom id handle_component returns
\* Ignore, never Err; for a wrong user, an unknown custom id, a field that
\* does not parse, or mods that are invalid or do not fit the map's mode
\* handle_modal returns Ok(()), never Err.
C20_UserErrorsStayInside ==
    /\ (last.op = "component" /\ last.user \in Users
           /\ (last.user # msg_owner \/ last.custom_id \notin KnownComponentIds))
          => last.result = "Ignore"
    /\ (last.op = "modal" /\ last.user \in Users /\ last.rows # <<>>
           /\ \/ last.user # msg_owner
              \/ last.custom_id \notin KnownModalIds
              \/ UnparseableField(last)
              \/ BadMods(last, map.mode))
          => last.result = "Ok"

\* The owner submitted mods that do not exist in the map's mode.
C20_Witness ==
    /\ last.op = "modal"
    /\ OwnerCall(last)
    /\ BadMods(last, map.mode)
    /\ map.mode = "Osu"
    /\ last.rows[1].value = Some(<<"F", "I">>)
    /\ last.result = "Ok"
    /\ data.mods = Some({<<"H", "D">>})

\* The ids of the buttons that ask for input.
InputRequestingIds ==
    {"sim_mods", "sim_combo", "sim_acc", "sim_geki", "sim_katu", "sim_n300", "sim_n100",
     "sim_n50", "sim_miss", "sim_slider_ends", "sim_large_ticks", "sim_score",
     "sim_clock_rate", "sim_attrs"}

\* The version menu carries a known version and the platform accepts defer().
SuccessfulSelection(c) ==
    /\ c.custom_id \in VersionMenus
    /\ c.values # <<>>
    /\ FromMenuStr(c.values[1]) # None
    /\ c.deferOk

\* C21: for an owner component event handle_component returns CreateModal
\* exactly for the input-requesting ids, and then changes no stored state; it
\* returns BuildPage only for sim_lazer, sim_stable and a successful
\* version-menu selection.
C21_CreateModalForInputIds ==
    [][(Waiting /\ last'.op = "component" /\ OwnerCall(last')) =>
          /\ last'.result = "CreateModal" <=> last'.custom_id \in InputRequestingIds
          /\ last'.result = "CreateModal" =>
                /\ data' = data /\ map' = map /\ defer' = defer /\ msg_owner' = msg_owner
                /\ last'.defers = 0
                /\ last'.modal # NoModal
                /\ ~renderPending'
          /\ last'.result = "BuildPage" =>
                \/ last'.custom_id \in {"sim_lazer", "sim_stable"}
                \/ SuccessfulSelection(last')]_vars

\* The owner clicked the speed button on a panel with every value set.
C21_Witness ==
    /\ last.op = "component"
    /\ OwnerCall(last)
    /\ last.custom_id = "sim_clock_rate"
    /\ last.result = "CreateModal"
    /\ last.modal.custom_id = "sim_speed_adjustments"
    /\ data.bpm = Some(1800)

\* C22: matchliveremove without a match id untracks the match of a channel
\* that tracks exactly one; in a channel that tracks none or several it
\* reports an error and untracks nothing.
C22_RemoveWithoutId ==
    (mcall.op = "matchliveremove" /\ mcall.arg = None) =>
        /\ IF Cardinality(mcall.before) = 1
           THEN /\ mcall.reply = "Stopped"
                /\ mcall.match_id = mcall.before
                /\ tracked[mcall.channel] = {}
           ELSE /\ mcall.reply = "NotExactlyOne"
                /\ mcall.match_id = None
                /\ tracked[mcall.channel] = mcall.before

\* The command was given no match id in a channel tracking two matches.
C22_Witness ==
    /\ mcall.op = "matchliveremove"
    /\ mcall.arg = None
    /\ Cardinality(mcall.before) = 2
    /\ mcall.reply = "NotExactlyOne"

C24_VersionAfterDefer ==
    [][(Waiting /\ last'.op = "component" /\ OwnerCall(last')
          /\ last'.custom_id \in VersionMenus)
         => IF SuccessfulSelection(last')
            THEN /\ last'.result = "BuildPage"
                 /\ last'.defers = 1
                 /\ data' = [data EXCEPT !.version = Unwrap(FromMenuStr(last'.values[1]))]
            ELSE /\ last'.result = "Err"
                 /\ last'.defers = 0
                 /\ data' = data
                 /\ map' = map
                 /\ defer' = defer
                 /\ msg_owner' = msg_owner]_vars

\* The owner selected a known version other than the stored one and the
\* defer failed: Err, and the stored version is still the old one.
C24_Witness ==
    /\ last.op = "component"
    /\ OwnerCall(last)
    /\ last.custom_id \in VersionMenus
    /\ last.values # <<>>
    /\ FromMenuStr(last.values[1]) # None
    /\ Unwrap(FromMenuStr(last.values[1])) # data.version
    /\ ~last.deferOk
    /\ last.result = "Err"

\* C25: rendering a TopIfPagination (build_page, build_components) leaves its
\* Pages and its entries as they were; the entries and the page size never
\* change, and the page index changes only in handle_component and
\* handle_modal called for an event of the owner.
C25_OnlyOwnerTurnsPage ==
    [][/\ topif_entries' = topif_entries
       /\ pages'.per_page = pages.per_page
       /\ (tcall'.op \in {"build_page", "build_components"} => pages' = pages)
       /\ (pages'.index # pages.index
             => /\ tcall'.op \in {"handle_component", "handle_modal"}
                /\ tcall'.user = msg_owner)]_vars

\* The second page of a list of more than five entries was rendered.
C25_Witness ==
    /\ tcall.op = "build_page"
    /\ tcall.before = pages
    /\ pages.index = TopIfPerPage
    /\ Len(topif_entries) > TopIfPerPage
    /\ tcall.shown # <<>>

\* C26: for a TopIfPagination of n entries, whatever events came before,
\* build_page does not panic and renders the entries at the offsets from
\* index up to min(n, index + 5): one to five entries when n > 0, none when
\* n = 0.
C26_RendersPageSlice ==
    tcall.op = "build_page"
        => /\ tcall.result = "Ok"
           /\ tcall.from = pages.index
           /\ tcall.to = Min(Len(topif_entries), pages.index + TopIfPerPage)
           /\ tcall.to <= Len(topif_entries)
           /\ tcall.shown = [i \in 1 .. (tcall.to - tcall.from) |-> topif_entries[tcall.from + i]]
           /\ (Len(topif_entries) > 0 => Len(tcall.shown) \in 1 .. TopIfPerPage)
           /\ (Len(topif_entries) = 0 => tcall.shown = <<>>)

\* The last page of a list of twelve entries was rendered: the two entries
\* 11 and 12.
C26_Witness ==
    /\ tcall.op = "build_page"
    /\ Len(topif_entries) = 12
    /\ tcall.from = 10
    /\ tcall.shown = <<11, 12>>

\* C27: with the events of an instance handled one at a time and build_page
\* called after every BuildPage result before the next event, defer is true
\* when handle_component or handle_modal is entered; build_page leaves defer
\* true and its BuildPage carries the value defer had before the call.
C27_DeferTrueAtEntry ==
    [][/\ (last'.op \in {"component", "modal"} => defer = TRUE)
       /\ (last'.op = "build_page"
             => /\ defer' = TRUE
                /\ Unwrap(last'.page).defer = defer)]_vars

\* The render that followed sim_lazer: the handler had reset the flag, the
\* BuildPage says so, and the flag is true again for the next event.
C27_Witness ==
    /\ last.op = "build_page"
    /\ last.forEvent
    /\ Unwrap(last.page).defer = FALSE
    /\ defer = TRUE
    /\ data.set_on_lazer

\* C28: on a panel that started in stable mode with no slider end and large
\* tick counts, whatever component and modal events of the owner came, the
\* two counts are unset whenever set_on_lazer is false.
C28_CountersOnlyOnLazer ==
    ~data.set_on_lazer => (data.n_slider_ends = None /\ data.n_large_ticks = None)

\* C29: the beatmap attributes build_page renders with are a function of the
\* overrides stored at that moment: the beatmap's own AR, CS, HP and OD with
\* the set overrides in their place, so that an override that was rendered
\* and then cleared gives way to the beatmap's own value again.
C29_AttributesFromOverrides ==
    last.op = "build_page"
        => Unwrap(last.page).embed.map = ApplyOverrides(InitMap(map.mode), data.attrs)

\* The stored field that belongs to an input of a modal.
StoredFor(d, input_id) ==
    CASE input_id \in IntModalIds -> d[IntField(input_id)]
      [] input_id = "sim_mods" -> d.mods
      [] input_id = "sim_acc" -> d.acc
      [] input_id = "sim_ar" -> d.attrs.ar
      [] input_id = "sim_cs" -> d.attrs.cs
      [] input_id = "sim_hp" -> d.attrs.hp
      [] input_id = "sim_od" -> d.attrs.od
      [] input_id = "sim_clock_rate" -> d.clock_rate
      [] input_id = "sim_bpm" -> d.bpm

\* What must be stored once a text every branch can parse was read from an
\* input: 150, the mods HD, 9.5; None for any other text.
ReadValue(input_id, text) ==
    IF input_id \in IntModalIds
    THEN IF text = <<"1", "5", "0">> THEN Some(150) ELSE None
    ELSE IF input_id = "sim_mods"
    THEN IF text = <<"+", "H", "D", "!">> THEN Some({<<"H", "D">>}) ELSE None
    ELSE IF text = <<"9", ".", "5">> THEN Some(95) ELSE None

\* C30: every modal handle_component opens is one handle_modal has a branch
\* for, and the branch reads each input of the modal: when the owner submits
\* such a modal, a parseable value typed into any of its inputs (sim_clock_rate
\* and sim_bpm of sim_speed_adjustments, sim_ar, sim_cs, sim_hp and sim_od of
\* sim_attrs, the one input of the others) is what the input's field holds
\* afterwards, which the unknown-modal branch would not do.
C30_OpenedModalsAreRead ==
    [][(Waiting /\ last'.op = "modal" /\ OwnerCall(last')
          /\ last'.custom_id \in {ModalFor(b).custom_id : b \in ModalButtons})
         => \A j \in 1 .. Len(last'.rows) :
               (/\ last'.rows[j].value # None
                /\ ReadValue(last'.rows[j].custom_id, Unwrap(last'.rows[j].value)) # None)
                  => StoredFor(data', last'.rows[j].custom_id)
                       = ReadValue(last'.rows[j].custom_id, Unwrap(last'.rows[j].value))]_vars

\* The owner submitted the modal of the sim_clock_rate button with 9.5 typed
\* as bpm, and the stored bpm is 9.5.
C30_Witness ==
    /\ last.op = "modal"
    /\ OwnerCall(last)
    /\ last.custom_id = ModalFor("sim_clock_rate").custom_id
    /\ Len(last.rows) = 2
    /\ last.rows[2] = Row("sim_bpm", Some(<<"9", ".", "5">>))
    /\ data.bpm = Some(95)

\* A failed score as the osu!api gives it: not passed, of grade F.
FailedScores == {score \in ListScores : ~score.passed /\ score.grade = "F"}

\* C31: the recent list with grade F and passes = true is refused with an
\* error and no scores are asked for; with any other grade and passes, when
\* score_filter accepts some failed score (passed = false, grade F) the
\* scores are asked for with include_fails = true.
C31_FetchIncludesAcceptedFails ==
    [][(rl.step = "idle" /\ rl'.args # None)
         => IF Grade_of(Unwrap(rl'.args)) = Some("F") /\ Unwrap(rl'.args).passes = Some(TRUE)
            THEN /\ rl'.step = "done"
                 /\ rl'.reply = ":clown:"
                 /\ rl'.scores = <<>>
            ELSE /\ rl'.step = "fetching"
                 /\ (\E score \in FailedScores : score_filter(Unwrap(rl'.args), score))
                       => rl'.include_fails]_vars

\* Grade F is asked for without a passes option: the filter accepts failed
\* scores and they are asked for.
C31_Witness ==
    /\ rl.step = "fetching"
    /\ Unwrap(rl.args).grade = Some("F")
    /\ Unwrap(rl.args).passes = None
    /\ rl.include_fails

\* The scores of the call that became entries before the unique step.
InputEntries ==
    {scores_idx \in 1 .. Len(rl.scores) :
        /\ score_filter(Unwrap(rl.args), rl.scores[scores_idx])
        /\ rl.scores[scores_idx].map_id \in rl.maps}

UniqueValue(score) ==
    IF Unwrap(rl.args).unique = Some("HighestPp") THEN score.pp ELSE score.score

\* C32: after process_scores with unique = HighestPp (HighestScore) no two
\* entries have the same map_id and mods, and each entry has the highest pp
\* (score) of the input entries with its map_id and mods.
C32_UniqueKeepsHighest ==
    (rl.step = "done" /\ rl.args # None /\ Unwrap(rl.args).unique # None)
       => /\ \A i, j \in 1 .. Len(rl.entries) :
                (/\ rl.entries[i].map_id = rl.entries[j].map_id
                 /\ rl.entries[i].score.mods = rl.entries[j].score.mods) => i = j
          /\ \A i \in 1 .. Len(rl.entries) : \A k \in InputEntries :
                (/\ rl.scores[k].map_id = rl.entries[i].map_id
                 /\ rl.scores[k].mods = rl.entries[i].score.mods)
                   => UniqueValue(rl.entries[i].score) >= UniqueValue(rl.scores[k])

\* C33: every entry process_scores returns has a map_id that is a key of the
\* maps it returns, so that no comparator of the sort misses a map, and the
\* idx of an entry is the place of its score in the list of scores given.
C33_EntriesHaveMapAndIdx ==
    (rl.step = "done" /\ rl.scores # <<>>)
       => /\ rl.reply = "list"
          /\ \A i \in 1 .. Len(rl.entries) :
                /\ rl.entries[i].map_id \in rl.maps
                /\ rl.entries[i].idx \in 0 .. Len(rl.scores) - 1
                /\ rl.scores[rl.entries[i].idx + 1] = rl.entries[i].score
                /\ \A j \in 1 .. Len(rl.entries) : rl.entries[i].idx = rl.entries[j].idx => i = j

\* The first of two scores passes the filter and is skipped because its map
\* is missing; the second becomes the only entry, with idx 1.
C33_Witness ==
    /\ rl.step = "done"
    /\ rl.reply = "list"
    /\ Len(rl.scores) = 2
    /\ score_filter(Unwrap(rl.args), rl.scores[1])
    /\ rl.scores[1].map_id \notin rl.maps
    /\ Len(rl.entries) = 1
    /\ rl.entries[1].idx = 1

\* What Context::add_match_track can answer.
MatchTrackResults == {"Added", "Capped", "Duplicate", "Error", "NotFound", "Private"}

\* C34: matchlive track with the thread option creates a thread only in a
\* guild where the bot may create threads, calls add_match_track only with a
\* parsed match id, and leaves no newly created thread behind when
\* add_match_track answers Capped, Duplicate, Error, NotFound or Private.
C34_NoThreadWithoutTracking ==
    (mcall.op = "matchlive" /\ mcall.thread)
       => /\ mcall.created # None => (mcall.env.guild /\ mcall.env.can_create_thread)
          /\ mcall.reply \in MatchTrackResults
                => (mcall.match_id # None /\ parse_match_id(Unwrap(mcall.arg)).ok)
          /\ mcall.reply \in MatchTrackResults \ {"Added"}
                => (mcall.created = None \/ Unwrap(mcall.created) \notin threads)

\* The arguments RecentList::args is said to read, lowercased.
FirstThree == [i \in 1 .. Min(3, Len(rl.argv)) |-> cow_to_ascii_lowercase(rl.argv[i])]

\* An argument with '=' after its first character, and its two sides.
IsOption(arg) == find_eq(arg) # None /\ Unwrap(find_eq(arg)) > 0

OptionKey(arg) == SubSeq(arg, 1, Unwrap(find_eq(arg)))

OptionValue(arg) == trim_end(SubSeq(arg, Unwrap(find_eq(arg)) + 2, Len(arg)))

\* An option args cannot take: of an unknown key, or with a value that does
\* not parse.
BadOption(arg) ==
    /\ IsOption(arg)
    /\ \/ OptionKey(arg) \notin PassKeys \cup FailKeys \cup GradeKeys
       \/ /\ OptionKey(arg) \in PassKeys \cup FailKeys
          /\ OptionValue(arg) \notin TrueTexts \cup FalseTexts
       \/ /\ OptionKey(arg) \in GradeKeys
          /\ GradeOption_from_str(OptionValue(arg)) = None

\* C35: RecentList::args gives what the first three arguments alone give;
\* when a pass or fail option is among them the grade it returns is None,
\* wherever the option stands; an option of an unknown key or with a pass,
\* fail or grade value that does not parse among them gives Err.
C35_ArgsOfFirstThree ==
    rl.step = "parsed"
       => /\ rl.args = RecentList_args(SubSeq(rl.argv, 1, Min(3, Len(rl.argv))))
          /\ \A other \in TypedTokens :
                Len(rl.argv) = 3 => RecentList_args(Append(rl.argv, other)) = rl.args
          /\ (/\ rl.args # None
              /\ \E i \in 1 .. Len(FirstThree) :
                    /\ IsOption(FirstThree[i])
                    /\ OptionKey(FirstThree[i]) \in PassKeys \cup FailKeys)
                => Unwrap(rl.args).grade = None
          /\ (\E i \in 1 .. Len(FirstThree) : BadOption(FirstThree[i])) => rl.args = None

\* A grade is typed before a pass option and an unknown option in fourth
\* place: the grade is unset and the fourth argument is not read.
C35_Witness ==
    /\ rl.step = "parsed"
    /\ Len(rl.argv) = 4
    /\ rl.argv[1] = <<"g", "=", "a">>
    /\ rl.argv[3] = <<"p", "=", "t">>
    /\ BadOption(rl.argv[4])
    /\ rl.args # None
    /\ Unwrap(rl.args).grade = None
    /\ Unwrap(rl.args).passes = Some(TRUE)

====
